---------------------------- MODULE Spec2Model ----------------------------
(***************************************************************************)
(* smp_utils: the four SMP utilities smp_rep_general, smp_conf_general,    *)
(* smp_discover and smp_rep_broadcast, modelled as one state machine.      *)
(* One invocation of one utility is one behaviour: the utility and its     *)
(* command-line options are drawn in Init, the responder's answers are     *)
(* drawn at each send.                                                     *)
(***************************************************************************)
EXTENDS Integers, Sequences, FiniteSets, TLC

VARIABLES
    util,      \* which utility runs
    op,        \* struct opts_t / the option locals of main()
    pc,        \* position in the utility's code
    rr,        \* struct smp_req_resp after smp_send_req(), with the response
    deduced,   \* len after "len = 4 + (len * 4)", before any clamp
    len,       \* len as handed to the dump and the decoders
    rv,        \* return value of get_num_phys() / do_discover()
    ret,       \* ret of main() / do_single() / do_multiple()
    num,       \* do_multiple(): num
    nphys,     \* do_multiple(): what get_num_phys() returned (history)
    has_t2t,   \* do_multiple(): has_t2t
    dsn,       \* do_multiple(): the text in dsn[]
    nomem,     \* the function whose buffer allocation failed, "" if none
               \* (history)
    k,         \* do_multiple(): loop index k
    reads,     \* offsets of the response header read so far in this exchange
    sent,      \* requests handed to smp_send_req(), in order
    hist,      \* what each of those exchanges met, in order (history)
    out,       \* what was written to stdout, in order
    closed,    \* results of the smp_initiator_close() calls, in order
    exit       \* exit status of the process, NoExit while running

vars == <<util, op, pc, rr, deduced, len, rv, ret, num, nphys, has_t2t, dsn,
          nomem, k, reads, sent, hist, out, closed, exit>>

---------------------------------------------------------------------------
(* smp_lib.h                                                               *)

SMP_FRAME_TYPE_REQ == 64
SMP_FRAME_TYPE_RESP == 65

SMP_FN_REPORT_GENERAL == 0
SMP_FN_REPORT_BROADCAST == 6
SMP_FN_DISCOVER == 16
SMP_FN_CONFIG_GENERAL == 128

SMP_FRES_NO_PHY == 16
SMP_FRES_PHY_VACANT == 22

SMP_LIB_SYNTAX_ERROR == 91
SMP_LIB_FILE_ERROR == 92
SMP_LIB_RESOURCE_ERROR == 93
SMP_LIB_CAT_MALFORMED == 97
SMP_LIB_CAT_OTHER == 99

(* smp_lib.c: smp_get_func_def_resp_len(). The default response length in  *)
(* dwords of a function code, negative when the table has no usable entry  *)
(* (REPORT BROADCAST's response is of variable length).                    *)
smp_get_func_def_resp_len(func_code) ==
    CASE func_code = SMP_FN_REPORT_GENERAL -> 6
      [] func_code = SMP_FN_REPORT_BROADCAST -> -2
      [] func_code = SMP_FN_DISCOVER -> 12
      [] func_code = SMP_FN_CONFIG_GENERAL -> 0
      [] OTHER -> -1

---------------------------------------------------------------------------
(* Program constants of the utilities                                      *)

SMP_FN_DISCOVER_RESP_LEN == 124
SMP_FN_REPORT_GENERAL_RESP_LEN == 76
SMP_FN_REPORT_BROADCAST_RESP_LEN == 1028
MAX_PHY_ID == 254

Utils == {"rep_general", "conf_general", "discover", "rep_broadcast"}

(* smp_req[1] of each utility's request.                                   *)
ReqFn(u) ==
    CASE u = "rep_general" -> SMP_FN_REPORT_GENERAL
      [] u = "conf_general" -> SMP_FN_CONFIG_GENERAL
      [] u = "discover" -> SMP_FN_DISCOVER
      [] u = "rep_broadcast" -> SMP_FN_REPORT_BROADCAST

---------------------------------------------------------------------------
(* Bounds and the values the environment is drawn from                     *)

MaxPhys == 2       \* REPORT GENERAL's number of phys is drawn from 0..MaxPhys
MaxPhyArg == 1     \* --phy is drawn from 0..MaxPhyArg
MaxNumArg == 2     \* --num is drawn from 0..MaxNumArg
MaxExch == 3       \* DISCOVER requests modelled in one enumeration

NoExit == 0 - 1000     \* exit: the process has not exited
NoRv == 0 - 2000       \* rv: no call of get_num_phys()/do_discover() returned

(* A function code with no entry in the default response length table.     *)
UnlistedCodes == {127}

FrameTypes == {SMP_FRAME_TYPE_RESP, SMP_FRAME_TYPE_REQ}
EchoCodes(fn) == {fn} \cup UnlistedCodes \cup
                 {IF fn = SMP_FN_DISCOVER THEN SMP_FN_REPORT_GENERAL
                                          ELSE SMP_FN_DISCOVER}
FuncResults == {0, 2, SMP_FRES_NO_PHY, SMP_FRES_PHY_VACANT,
                SMP_LIB_CAT_MALFORMED}
DeclaredLens == {0, 5, 12}
ActLens == {-1, 0, 2, 3, 4, 10, 52}

(* The bytes of a response the model follows: the header b0..b3, and pl,   *)
(* the payload bytes the utilities branch on or print a label for:         *)
(*   ecc      bytes 4..5, the expander change count                        *)
(*   b9       REPORT GENERAL: number of phys                               *)
(*   b12      REPORT GENERAL: first byte of the enclosure logical id       *)
(*   b6       REPORT BROADCAST: broadcast type of the header               *)
(*   b10      REPORT BROADCAST: descriptor length in dwords                *)
(*   b11      REPORT BROADCAST: number of descriptors                      *)
(*   dbt      REPORT BROADCAST: first byte of each descriptor              *)
(*   and of DISCOVER                                                       *)
(*   adt      (rp[12] & 0x70) >> 4        reason   rp[12] & 0xf            *)
(*   negot    rp[13] & 0xf                ini      rp[14] & 0xf            *)
(*   tgt      rp[15] & 0xf                sa       bytes 16..23            *)
(*   rattr    rp[44] & 0xf                b45      rp[45] & 0x7f           *)
(*   zen      rp[60] & 0x1                zg       rp[63]                  *)
(*   b94      rp[94]                      dsn      rp[108]                 *)
ZeroPayload ==
    [ecc |-> 0, b9 |-> 0, b12 |-> 0, b6 |-> 0, b10 |-> 0, b11 |-> 0,
     dbt |-> 0, adt |-> 0, reason |-> 0, negot |-> 0, ini |-> 0, tgt |-> 0,
     sa |-> 0, rattr |-> 0, b45 |-> 0, zen |-> 0, zg |-> 0, b94 |-> 0,
     dsn |-> 0]
ZeroResp == [b0 |-> 0, b1 |-> 0, b2 |-> 0, b3 |-> 0, pl |-> ZeroPayload]

Payloads(u) ==
    CASE u = "rep_general" ->
           {[ZeroPayload EXCEPT !.b9 = n] : n \in 0..MaxPhys}
      [] u = "rep_broadcast" ->
           {[ZeroPayload EXCEPT !.b10 = d[1], !.b11 = d[2], !.b6 = t[1],
                                !.dbt = t[2]] :
              d \in {<<1, 1>>, <<2, 0>>, <<2, 1>>, <<2, 2>>, <<255, 2>>},
              t \in {<<0, 0>>, <<3, 3>>, <<3, 4>>}} \cup
           {[ZeroPayload EXCEPT !.b10 = 2, !.b11 = 1, !.b6 = t, !.dbt = 9] :
              t \in 0..15} \cup
           {[ZeroPayload EXCEPT !.b10 = 2, !.b11 = 1, !.dbt = t, !.ecc = 1] :
              t \in 0..15}
      [] u = "discover" ->
           {[ZeroPayload EXCEPT !.adt = a[1], !.negot = a[2], !.sa = s] :
              a \in {<<0, 0>>, <<0, 1>>, <<1, 9>>}, s \in {0, 1}}
      [] OTHER -> {ZeroPayload}

(* DISCOVER payloads that run each enumerated field through its values,    *)
(* and set the bytes that switch a printed field on or off.                *)
SweepPayloads ==
    LET P == [ZeroPayload EXCEPT !.sa = 1, !.adt = 1, !.negot = 9]
    IN  {[P EXCEPT !.adt = v] : v \in 0..7} \cup
        {[P EXCEPT !.negot = v] : v \in 0..15} \cup
        {[P EXCEPT !.reason = v] : v \in 0..15} \cup
        {[P EXCEPT !.rattr = v] : v \in 0..15} \cup
        {[P EXCEPT !.b94 = 17 * v] : v \in 0..15} \cup
        {[P EXCEPT !.zen = z[1], !.zg = z[2]] :
           z \in {<<0, 5>>, <<1, 1>>, <<1, 5>>}} \cup
        {[P EXCEPT !.ecc = 1], [P EXCEPT !.b45 = 1], [P EXCEPT !.ini = 8],
         [P EXCEPT !.tgt = 8], [P EXCEPT !.dsn = 5], [P EXCEPT !.dsn = 255]}

(* The DISCOVER responses drawn for the summary with --dsn or --adn: a     *)
(* table routing phy with an end device, in 120 bytes with a device slot   *)
(* number or with none (255), or in 40 bytes, which end before the device  *)
(* slot number and the attached device name; and NO_PHY.                   *)
SlotResponses ==
    LET P == [ZeroPayload EXCEPT !.sa = 1, !.adt = 1, !.negot = 9,
                                 !.rattr = 2]
        R == [b0 |-> SMP_FRAME_TYPE_RESP, b1 |-> SMP_FN_DISCOVER, b2 |-> 0,
              b3 |-> 0, pl |-> ZeroPayload]
    IN  {[R EXCEPT !.b3 = v[1], !.pl = [P EXCEPT !.dsn = v[2]]] :
            v \in {<<29, 5>>, <<29, 255>>, <<9, 7>>}} \cup
        {[R EXCEPT !.b2 = SMP_FRES_NO_PHY]}

(* The REPORT GENERAL responses drawn with them: two phys, the expander    *)
(* doing table to table routing or not, or a failing function result.      *)
SlotPreQueryResponses ==
    LET R == [b0 |-> SMP_FRAME_TYPE_RESP, b1 |-> SMP_FN_REPORT_GENERAL,
              b2 |-> 0, b3 |-> 0, pl |-> ZeroPayload]
    IN  {[R EXCEPT !.pl = [ZeroPayload EXCEPT !.b9 = 2, !.b10 = t]] :
            t \in {0, 128}} \cup
        {[R EXCEPT !.b2 = 2]}

(* Response length bytes of the swept DISCOVER responses: 9 stands for a   *)
(* response of 40 bytes, 29 for one of 120.                                *)
SweepLens == {9, 29}

SweepResponses ==
    {[b0 |-> SMP_FRAME_TYPE_RESP, b1 |-> SMP_FN_DISCOVER, b2 |-> 0,
      b3 |-> b, pl |-> p] : b \in SweepLens, p \in SweepPayloads}

WellFormed(r, fn) == r.b0 = SMP_FRAME_TYPE_RESP /\ r.b1 = fn

(* Responses of the single-exchange paths: every header, and every payload *)
(* under the headers that let the payload be looked at.                    *)
Responses(u, fn) ==
    {r \in [b0 : FrameTypes, b1 : EchoCodes(fn), b2 : FuncResults,
            b3 : DeclaredLens, pl : Payloads(u) \cup {ZeroPayload}] :
        \/ r.pl = ZeroPayload
        \/ WellFormed(r, fn) /\ r.b2 \in {0, SMP_FRES_PHY_VACANT} /\ r.b3 = 0
        \/ WellFormed(r, fn) /\ r.b2 = 0 /\ u = "rep_broadcast"}

(* Responses while phys are enumerated: one of each kind of header.        *)
(* REPORT GENERAL, asked for the number of phys, fails with one function   *)
(* result.                                                                 *)
EnumResponses(u, fn) ==
    {r \in Responses(u, fn) :
        /\ r.b3 = 0
        /\ r.b1 # fn => r.b1 \in UnlistedCodes /\ r.b2 = 0
        /\ r.b0 # SMP_FRAME_TYPE_RESP => r.b1 = fn /\ r.b2 = 0}

PreQueryResponses ==
    {r \in EnumResponses("rep_general", SMP_FN_REPORT_GENERAL) :
        r.b2 \in {0, 2}}

NoRR == [res |-> 0, transport_err |-> 0, act_response_len |-> -1,
         response |-> ZeroResp]

(* What smp_send_req() may hand back: a failed call, a transport error, or *)
(* a response with the length the transport says it received.              *)
SendOutcomes(resps, acts) ==
    {[NoRR EXCEPT !.res = -1], [NoRR EXCEPT !.transport_err = 1]} \cup
    {[NoRR EXCEPT !.act_response_len = a, !.response = r] :
        a \in acts, r \in resps}

---------------------------------------------------------------------------
(* Command line                                                            *)

DefaultOpts ==
    [do_hex |-> 0, do_raw |-> FALSE, do_my |-> FALSE, do_list |-> FALSE,
     do_summary |-> FALSE, do_brief |-> 0, multiple |-> 0, do_num |-> 0,
     phy_id |-> 0, phy_id_given |-> FALSE, ign_zp |-> FALSE,
     do_zero |-> FALSE, do_adn |-> FALSE, do_dsn |-> FALSE]

(* smp_discover main(): the options after the command line is read.        *)
NormalizeOpts(o) ==
    LET o1 == IF o.do_my
              THEN [o EXCEPT !.multiple = 0, !.do_summary = FALSE,
                             !.do_num = 1]
              ELSE IF (~o.do_summary) /\ (0 = o.multiple) /\
                      (0 = o.do_num) /\ (~o.phy_id_given)
                   THEN [o EXCEPT !.do_summary = TRUE]
                   ELSE o
    IN IF o1.do_summary
       THEN [o1 EXCEPT !.do_brief = @ + 1, !.multiple = 1]
       ELSE o1

(* do_hex || do_raw                                                        *)
Dumping(o) == (o.do_hex # 0) \/ o.do_raw

(* --hex and --raw as the command line can give them (--hex wins when     *)
(* both are given, so that case is not drawn).                             *)
DumpOpts ==
    {[DefaultOpts EXCEPT !.do_hex = d[1], !.do_raw = d[2]] :
        d \in {<<0, FALSE>>, <<1, FALSE>>, <<0, TRUE>>}}

(* The command lines of smp_discover that are drawn: --my alone or with    *)
(* --phy, --num and --brief with an enumeration, --ignore and --zero with  *)
(* the plain one-phy and one-line forms.                                   *)
DiscoverOpts ==
    {o \in {[d EXCEPT !.do_my = my, !.do_brief = b, !.multiple = m,
                      !.do_num = n, !.phy_id = p[1], !.phy_id_given = p[2],
                      !.do_list = l, !.ign_zp = z[1], !.do_zero = z[2]] :
               d \in DumpOpts, my \in BOOLEAN, b \in 0..1, m \in 0..2,
               n \in 0..MaxNumArg, l \in BOOLEAN, z \in BOOLEAN \X BOOLEAN,
               p \in {<<0, FALSE>>} \cup {<<i, TRUE>> : i \in 0..MaxPhyArg}} :
        /\ (o.ign_zp \/ o.do_zero) =>
              (~Dumping(o)) /\ (~o.do_my) /\ (~o.do_list) /\
              (o.do_brief = 0) /\ (o.do_num = 0) /\ (o.multiple < 2)
        /\ o.do_list => (~Dumping(o)) /\ (~o.do_my) /\ (o.do_brief = 0) /\
                         (o.do_num = 0) /\ (o.multiple < 2)
        /\ o.do_my => (o.multiple = 0) /\ (o.do_num = 0) /\ (o.do_brief = 0)
        /\ (o.multiple = 0) => (o.do_num = 0)
        /\ (o.do_brief # 0) =>
              (o.multiple = 1) \/ ((o.multiple = 0) /\ ~o.phy_id_given)}
    \cup {[DefaultOpts EXCEPT !.do_dsn = TRUE],
          [DefaultOpts EXCEPT !.do_adn = TRUE]}
    \cup {[DefaultOpts EXCEPT !.multiple = 1, !.phy_id = MAX_PHY_ID,
                              !.phy_id_given = TRUE, !.do_num = n] :
             n \in 1..MaxNumArg}

(* --dsn or --adn is given.                                                *)
SlotOpts(o) == o.do_dsn \/ o.do_adn

---------------------------------------------------------------------------
(* smp_conf_general and smp_rep_broadcast: command line                    *)

(* long_options[] of smp_conf_general: the option letter getopt_long()     *)
(* returns for each long option that takes a value. "nexus" is entered     *)
(* with the letter of "power".                                             *)
long_options ==
    [connect |-> "c", expander |-> "e", expected |-> "E",
     inactivity |-> "i", nexus |-> "p", open |-> "o", power |-> "p",
     reduced |-> "R", ssp |-> "S"]

(* One option of a command line, in its short (-n 5) or its long           *)
(* (--nexus=5) form. arg is the number smp_get_num() makes of the option's *)
(* argument, -1 when it is no number.                                      *)
ShortOpt(c, v) == [long |-> FALSE, name |-> c, arg |-> v]
LongOpt(n, v) == [long |-> TRUE, name |-> n, arg |-> v]

(* getopt_long(): the letter main() switches on.                           *)
getopt_long(tok) == IF tok.long THEN long_options[tok.name] ELSE tok.name

(* The locals of main() of smp_conf_general that the options set; argv is  *)
(* the command line they came from and bad says that main() returned       *)
(* SMP_LIB_SYNTAX_ERROR while reading it.                                  *)
CG_DefaultOpts ==
    [do_hex |-> 0, do_raw |-> FALSE, expected_cc |-> 0,
     do_connect |-> FALSE, connect_val |-> 0,
     do_itdefoi |-> FALSE, itdefoi_val |-> 0,
     do_inactivity |-> FALSE, inactivity_val |-> 0,
     do_nexus |-> FALSE, nexus_val |-> 0,
     do_open |-> FALSE, open_val |-> 0,
     do_pdt |-> FALSE, power_val |-> 0,
     do_reduced |-> FALSE, reduced_val |-> 0,
     do_ssp |-> FALSE, ssp_ctl |-> 0,
     argv |-> <<>>, bad |-> FALSE]

BadArg(v, max) == (v < 0) \/ (v > max)

(* main() of smp_conf_general: one case of switch (c).                     *)
CG_Case(o, c, v) ==
    CASE c = "c" -> IF BadArg(v, 65535) THEN [o EXCEPT !.bad = TRUE]
                    ELSE [o EXCEPT !.connect_val = v, !.do_connect = TRUE]
      [] c = "e" -> IF BadArg(v, 255) THEN [o EXCEPT !.bad = TRUE]
                    ELSE [o EXCEPT !.itdefoi_val = v, !.do_itdefoi = TRUE]
      [] c = "E" -> IF BadArg(v, 65535) THEN [o EXCEPT !.bad = TRUE]
                    ELSE [o EXCEPT !.expected_cc = v]
      [] c = "H" -> [o EXCEPT !.do_hex = @ + 1]
      [] c = "i" -> IF BadArg(v, 65535) THEN [o EXCEPT !.bad = TRUE]
                    ELSE [o EXCEPT !.inactivity_val = v,
                                   !.do_inactivity = TRUE]
      [] c = "n" -> IF BadArg(v, 65535) THEN [o EXCEPT !.bad = TRUE]
                    ELSE [o EXCEPT !.nexus_val = v, !.do_nexus = TRUE]
      [] c = "o" -> IF BadArg(v, 65535) THEN [o EXCEPT !.bad = TRUE]
                    ELSE [o EXCEPT !.open_val = v, !.do_open = TRUE]
      [] c = "p" -> IF BadArg(v, 255) THEN [o EXCEPT !.bad = TRUE]
                    ELSE [o EXCEPT !.power_val = v, !.do_pdt = TRUE]
      [] c = "r" -> [o EXCEPT !.do_raw = TRUE]
      [] c = "R" -> IF BadArg(v, 255) THEN [o EXCEPT !.bad = TRUE]
                    ELSE [o EXCEPT !.reduced_val = v, !.do_reduced = TRUE]
      [] c = "S" -> IF BadArg(v, 65535) THEN [o EXCEPT !.bad = TRUE]
                    ELSE [o EXCEPT !.ssp_ctl = v, !.do_ssp = TRUE]
      [] OTHER -> [o EXCEPT !.bad = TRUE]

(* main() of smp_conf_general: the while loop over the command line, left  *)
(* at the first bad argument.                                              *)
RECURSIVE CG_Parse(_, _)
CG_Parse(o, args) ==
    IF (args = <<>>) \/ o.bad THEN o
    ELSE CG_Parse(CG_Case(o, getopt_long(Head(args)), Head(args).arg),
                  Tail(args))

(* The eight optional parameters in their short form, each with a value    *)
(* whose bytes differ from one another.                                    *)
CG_Params ==
    <<ShortOpt("c", 258), ShortOpt("e", 200), ShortOpt("i", 772),
      ShortOpt("n", 1286), ShortOpt("o", 1800), ShortOpt("p", 9),
      ShortOpt("R", 10), ShortOpt("S", 2828)>>

(* The command lines of smp_conf_general that are drawn: --hex and --raw   *)
(* alone, every subset of the eight parameters, each parameter alone with  *)
(* the least and the greatest value and the values around them, -n and     *)
(* --nexus with and without -p, the other long options, and --expected.    *)
CG_CmdLines ==
    {<<>>, <<ShortOpt("H", 0)>>, <<ShortOpt("r", 0)>>} \cup
    {SelectSeq(CG_Params, LAMBDA t : t.name \in S) :
        S \in SUBSET {"c", "e", "i", "n", "o", "p", "R", "S"}} \cup
    {<<ShortOpt(c, v)>> : c \in {"c", "i", "n", "o", "S", "E"},
                          v \in {-1, 0, 65535, 65536}} \cup
    {<<ShortOpt(c, v)>> : c \in {"e", "p", "R"}, v \in {-1, 0, 255, 256}} \cup
    {<<LongOpt("nexus", v)>> : v \in {0, 5, 255, 256, 1286, 65535}} \cup
    {<<LongOpt("nexus", 5), ShortOpt("p", 9)>>,
     <<ShortOpt("p", 9), LongOpt("nexus", 5)>>,
     <<ShortOpt("n", 1286), LongOpt("nexus", 5)>>,
     <<ShortOpt("E", 258), ShortOpt("n", 1286)>>} \cup
    {<<LongOpt(n, 7)>> : n \in DOMAIN long_options}

CG_Opts ==
    {CG_Parse([CG_DefaultOpts EXCEPT !.argv = a], a) : a \in CG_CmdLines}

(* smp_rep_broadcast: --hex, --raw and --broadcast=BT.                     *)
RB_DefaultOpts == [do_hex |-> 0, do_raw |-> FALSE, btype |-> 0]

RG_DefaultOpts == [do_hex |-> 0, do_raw |-> FALSE, do_change |-> FALSE]

(* The command lines of smp_rep_general that are drawn: --hex, --raw,      *)
(* --change or none of them.                                               *)
RG_Opts ==
    {[RG_DefaultOpts EXCEPT !.do_hex = d[1], !.do_raw = d[2]] :
        d \in {<<0, FALSE>>, <<1, FALSE>>, <<0, TRUE>>}} \cup
    {[RG_DefaultOpts EXCEPT !.do_change = TRUE]}

RB_Opts ==
    {[RB_DefaultOpts EXCEPT !.do_hex = d[1], !.do_raw = d[2]] :
        d \in {<<0, FALSE>>, <<1, FALSE>>, <<0, TRUE>>}} \cup
    {[RB_DefaultOpts EXCEPT !.btype = b] : b \in 0..15}

(* A command line that gives no more than --hex or --raw: the responder's  *)
(* answers are drawn in full for these, and one of each kind for the rest. *)
PlainOpts(u, o) ==
    CASE u = "conf_general" ->
           \A i \in DOMAIN o.argv : o.argv[i].name \in {"H", "r"}
      [] u = "rep_broadcast" -> o.btype = 0
      [] u = "discover" -> (~o.ign_zp) /\ (~o.do_zero)
      [] OTHER -> TRUE

---------------------------------------------------------------------------
(* The request frames                                                      *)

(* A frame, indexed from 0 as an array of bytes is.                        *)
Frame(bytes) == [i \in 0..(Len(bytes) - 1) |-> bytes[i + 1]]
sizeof(frame) == Cardinality(DOMAIN frame)

(* Mutant: the bit assigned where it is to be or-ed in.                    *)
OrBit_m(b, bit) == bit

(* b |= bit, for a single bit.                                             *)
OrBit(b, bit) == IF (b \div bit) % 2 = 1 THEN b ELSE b + bit

(* sg_put_unaligned_be16((uint16_t)val, p + off)                           *)
sg_put_unaligned_be16(val, p, off) ==
    [p EXCEPT ![off] = (val % 65536) \div 256, ![off + 1] = val % 256]

(* (len < 0x100) ? len : 0xff, with len = (max_resp_len - 8) / 4           *)
AllocatedResponseLen(max_resp_len) ==
    LET l == (max_resp_len - 8) \div 4
    IN  IF l < 256 THEN l ELSE 255

(* smp_rep_general, and get_num_phys() of smp_discover: smp_req[].         *)
RG_Request ==
    Frame(<<SMP_FRAME_TYPE_REQ, SMP_FN_REPORT_GENERAL, 0, 0, 0, 0, 0, 0>>)

(* smp_conf_general main(): smp_req[] as initialised, then the expected    *)
(* change count and each parameter that was given.                         *)
CG_Request(o) ==
    LET r0 == sg_put_unaligned_be16(o.expected_cc,
                  Frame(<<SMP_FRAME_TYPE_REQ, SMP_FN_CONFIG_GENERAL, 0, 4,
                          0, 0, 0, 0, 0, 0, 0, 0, 0, 0, 0, 0,
                          0, 0, 0, 0, 0, 0, 0, 0>>), 4)
        r1 == IF o.do_itdefoi
              THEN [r0 EXCEPT ![8] = OrBit(@, 128), ![9] = o.itdefoi_val]
              ELSE r0
        r2 == IF o.do_connect
              THEN sg_put_unaligned_be16(o.connect_val,
                       [r1 EXCEPT ![8] = OrBit(@, 2)], 12)
              ELSE r1
        r3 == IF o.do_inactivity
              THEN sg_put_unaligned_be16(o.inactivity_val,
                       [r2 EXCEPT ![8] = OrBit(@, 1)], 10)
              ELSE r2
        r4 == IF o.do_nexus
              THEN sg_put_unaligned_be16(o.nexus_val,
                       [r3 EXCEPT ![8] = OrBit(@, 4)], 14)
              ELSE r3
        r5 == IF o.do_open
              THEN sg_put_unaligned_be16(o.open_val,
                       [r4 EXCEPT ![8] = OrBit(@, 16)], 18)
              ELSE r4
        r6 == IF o.do_pdt
              THEN [r5 EXCEPT ![8] = OrBit(@, 32), ![17] = o.power_val % 256]
              ELSE r5
        r7 == IF o.do_reduced
              THEN [r6 EXCEPT ![8] = OrBit(@, 8), ![16] = o.reduced_val % 256]
              ELSE r6
    IN  IF o.do_ssp
        THEN sg_put_unaligned_be16(o.ssp_ctl,
                 [r7 EXCEPT ![8] = OrBit(@, 64)], 6)
        ELSE r7

(* Mutant: the DISCOVER request with the allocated response length and the *)
(* request length written one byte early.                                  *)
DISCOVER_Request_m(o, disc_phy_id) ==
    LET r0 == Frame(<<SMP_FRAME_TYPE_REQ, SMP_FN_DISCOVER, 0, 0,
                      0, 0, 0, 0, 0, 0, 0, 0, 0, 0, 0, 0>>)
        r1 == IF ~o.do_zero
              THEN [r0 EXCEPT
                      ![1] = AllocatedResponseLen(SMP_FN_DISCOVER_RESP_LEN),
                      ![2] = 2]
              ELSE r0
        r2 == IF o.ign_zp THEN [r1 EXCEPT ![8] = OrBit(@, 1)] ELSE r1
    IN  [r2 EXCEPT ![9] = disc_phy_id % 256]

(* do_discover(): smp_req[] for phy disc_phy_id; smp_req[9] is a byte.     *)
DISCOVER_Request(o, disc_phy_id) ==
    LET r0 == Frame(<<SMP_FRAME_TYPE_REQ, SMP_FN_DISCOVER, 0, 0,
                      0, 0, 0, 0, 0, 0, 0, 0, 0, 0, 0, 0>>)
        r1 == IF ~o.do_zero
              THEN [r0 EXCEPT
                      ![2] = AllocatedResponseLen(SMP_FN_DISCOVER_RESP_LEN),
                      ![3] = 2]
              ELSE r0
        r2 == IF o.ign_zp THEN [r1 EXCEPT ![8] = OrBit(@, 1)] ELSE r1
    IN  [r2 EXCEPT ![9] = disc_phy_id % 256]

(* smp_rep_broadcast main(): smp_req[].                                    *)
RB_Request(o) ==
    [Frame(<<SMP_FRAME_TYPE_REQ, SMP_FN_REPORT_BROADCAST, 0, 1,
             0, 0, 0, 0, 0, 0, 0, 0>>) EXCEPT
        ![2] = AllocatedResponseLen(SMP_FN_REPORT_BROADCAST_RESP_LEN),
        ![4] = o.btype % 16]

(* The request of a utility with one exchange.                             *)
SingleRequest(u, o) ==
    CASE u = "rep_general" -> RG_Request
      [] u = "conf_general" -> CG_Request(o)
      [] u = "rep_broadcast" -> RB_Request(o)

---------------------------------------------------------------------------
(* The response length resolver and the function result checks            *)

(* Mutant: the short response test with the limit one too low.             *)
ResponseTooShort_m(act_resplen) == (act_resplen >= 0) /\ (act_resplen < 3)

(* (act_resplen >= 0) && (act_resplen < 4)                                 *)
ResponseTooShort(act_resplen) == (act_resplen >= 0) /\ (act_resplen < 4)

(* smp_rep_general: len = smp_resp[3]; the table is consulted whenever     *)
(* that byte is 0.                                                         *)
RG_LenDwords(resp) ==
    IF 0 = resp.b3
    THEN LET l == smp_get_func_def_resp_len(resp.b1)
         IN  IF l < 0 THEN 0 ELSE l
    ELSE resp.b3

(* Mutant: the negative value of the table used as the length in dwords.   *)
LenDwords_m(resp) ==
    IF (0 = resp.b3) /\ (0 = resp.b2)
    THEN smp_get_func_def_resp_len(resp.b1)
    ELSE resp.b3

(* smp_conf_general, smp_discover (do_discover, get_num_phys) and          *)
(* smp_rep_broadcast: the table is consulted when byte 3 and byte 2 are 0. *)
LenDwords(resp) ==
    IF (0 = resp.b3) /\ (0 = resp.b2)
    THEN LET l == smp_get_func_def_resp_len(resp.b1)
         IN  IF l < 0 THEN 0 ELSE l
    ELSE resp.b3

(* len = 4 + (len * 4)                                                     *)
ByteLen(dwords) == 4 + (dwords * 4)

(* smp_rep_general uses the deduced length as it is.                       *)
RG_ResolvedLen(l, act_resplen) == l

(* Mutant: the clamp without the test for an unknown actual length.        *)
ClampLen_m(l, act_resplen) == IF l > act_resplen THEN act_resplen ELSE l

(* if ((act_resplen >= 0) && (len > act_resplen)) len = act_resplen;       *)
ClampLen(l, act_resplen) ==
    IF (act_resplen >= 0) /\ (l > act_resplen) THEN act_resplen ELSE l

(* The header bytes the length code reads.                                 *)
RG_LenReads(resp) == {3} \cup (IF 0 = resp.b3 THEN {1} ELSE {})
LenReads(resp) ==
    {3} \cup (IF 0 = resp.b3 THEN {2} ELSE {}) \cup
    (IF (0 = resp.b3) /\ (0 = resp.b2) THEN {1} ELSE {})

(* ret after the three tests of the hex/raw branch of smp_rep_general and  *)
(* smp_rep_broadcast: three separate ifs, each overwriting ret.            *)
SeqDumpStatus(resp, fn) ==
    LET r1 == IF SMP_FRAME_TYPE_RESP # resp.b0 THEN SMP_LIB_CAT_MALFORMED
              ELSE 0
        r2 == IF resp.b1 # fn THEN SMP_LIB_CAT_MALFORMED ELSE r1
    IN  IF resp.b2 # 0 THEN resp.b2 ELSE r2

(* ret after the hex/raw branch of smp_conf_general: an else-if chain.     *)
CG_DumpStatus(resp, fn) ==
    IF SMP_FRAME_TYPE_RESP # resp.b0 THEN SMP_LIB_CAT_MALFORMED
    ELSE IF resp.b1 # fn THEN SMP_LIB_CAT_MALFORMED
    ELSE IF resp.b2 # 0 THEN resp.b2
    ELSE 0

(* Mutant: the structured tests with the function result tested first.     *)
StructStatus_m(resp, fn) ==
    IF resp.b2 # 0 THEN resp.b2
    ELSE IF SMP_FRAME_TYPE_RESP # resp.b0 THEN SMP_LIB_CAT_MALFORMED
    ELSE IF resp.b1 # fn THEN SMP_LIB_CAT_MALFORMED
    ELSE 0

(* ret after the three tests of the structured path (each a goto err_out). *)
StructStatus(resp, fn) ==
    IF SMP_FRAME_TYPE_RESP # resp.b0 THEN SMP_LIB_CAT_MALFORMED
    ELSE IF resp.b1 # fn THEN SMP_LIB_CAT_MALFORMED
    ELSE IF resp.b2 # 0 THEN resp.b2
    ELSE 0

(* do_discover() / get_num_phys(): the value returned by the same three    *)
(* tests, l when all pass.                                                 *)
FuncReturn(resp, fn, l) ==
    IF SMP_FRAME_TYPE_RESP # resp.b0 THEN -4 - SMP_LIB_CAT_MALFORMED
    ELSE IF resp.b1 # fn THEN -4 - SMP_LIB_CAT_MALFORMED
    ELSE IF resp.b2 # 0 THEN -4 - resp.b2
    ELSE l

(* The header bytes the tests read, in the order 0, 1, 2.                  *)
StatusReads(resp, fn) ==
    {0} \cup (IF SMP_FRAME_TYPE_RESP = resp.b0 THEN {1} ELSE {}) \cup
    (IF WellFormed(resp, fn) THEN {2} ELSE {})

(* ret = (len < 0) ? ((len < -2) ? (-4 - len) : len) : 0                   *)
RetOfLen(l) == IF l < 0 THEN (IF l < -2 THEN -4 - l ELSE l) ELSE 0

(* The end of every main(): the status the process exits with.             *)
ExitStatus(r, close_res) ==
    IF (close_res < 0) /\ (0 = r) THEN SMP_LIB_FILE_ERROR
    ELSE IF r < 0 THEN SMP_LIB_CAT_OTHER
    ELSE r

---------------------------------------------------------------------------
(* The field decoders                                                      *)

(* exit: the process was ended by a signal.                                *)
Killed == 0 - 3000

(* A field of a report: its name, the first and the last offset of the     *)
(* response bytes it is made of, and its label when it is printed as one.  *)
Field(name, lo, hi, label) ==
    [name |-> name, lo |-> lo, hi |-> hi, label |-> label]

(* A part of a report that is printed under a condition.                   *)
When(c, fields) == IF c THEN fields ELSE <<>>

(* printf("%d") and printf("%x") of a number below 16.                     *)
Dec(v) == ToString(v)
Hex(v) ==
    <<"0", "1", "2", "3", "4", "5", "6", "7", "8", "9", "a", "b", "c", "d",
      "e", "f">>[v + 1]

(* smp_rep_broadcast: broadcast_type_name[]                                *)
broadcast_type_name ==
    <<"Broadcast (Change)", "Broadcast (Reserved Change 0)",
      "Broadcast (Reserved Change 1)", "Broadcast (SES)",
      "Broadcast (Expander)", "Broadcast (Asynchronous event)",
      "Broadcast (Reserved 3)", "Broadcast (Reserved 4)",
      "Broadcast (Zone activate)">>

get_broadcast_type_str(bt_num) ==
    LET max_num == Len(broadcast_type_name)
    IN  IF (bt_num < 0) \/ (bt_num >= max_num)
        THEN "Reserved [0x" \o Hex(bt_num) \o "]"
        ELSE broadcast_type_name[bt_num + 1]

(* smp_rep_broadcast: smp_resp[] is not initialised, so a byte holds what  *)
(* the responder sent when the transport received that many bytes (all of  *)
(* the response when the transport does not tell), and is indeterminate    *)
(* otherwise. Indeterminate is what such bytes are drawn from.             *)
RB_Received(r) ==
    IF r.act_response_len >= 0 THEN r.act_response_len
    ELSE SMP_FN_REPORT_BROADCAST_RESP_LEN
RB_Byte(r, off, sentv, g) == IF off < RB_Received(r) THEN sentv ELSE g
Indeterminate ==
    [ecc : {0, 1}, b6 : {0, 9}, b10 : {1, 2}, b11 : {0, 2}, dbt : {0, 9}]

(* smp_rep_broadcast main(): the report of a successful response. g gives  *)
(* the indeterminate bytes. The descriptor loop reads at bdp without       *)
(* looking at len or at the size of smp_resp[]: a read outside smp_resp[]  *)
(* is undefined, it yields some value or ends the process (crash).         *)
RB_Decode(r, g, crash) ==
    LET pl == r.response.pl
        res == RB_Byte(r, 5, pl.ecc, g.ecc)
        bt_hdr == RB_Byte(r, 6, pl.b6, g.b6) % 16
        bd_len == RB_Byte(r, 10, pl.b10, g.b10) * 4
        num_bd == RB_Byte(r, 11, pl.b11, g.b11)
        hdr == When(res # 0, <<Field("Expander change count", 4, 5, "")>>) \o
               <<Field("broadcast type", 6, 6,
                       get_broadcast_type_str(bt_hdr)),
                 Field("broadcast descriptor length", 10, 10, ""),
                 Field("number of broadcast descriptors", 11, 11, "")>>
        bdp(j) == 12 + (j * bd_len)
        Outside == {j \in 0..(num_bd - 1) :
                       bdp(j) + 5 >= SMP_FN_REPORT_BROADCAST_RESP_LEN}
        stop == IF crash /\ (Outside # {})
                THEN CHOOSE j \in Outside : \A i \in Outside : j <= i
                ELSE num_bd
        bt(j) == RB_Byte(r, bdp(j), pl.dbt, g.dbt) % 16
        Descriptor(j) ==
            Field("Descriptor", bdp(j), bdp(j) + 5,
                  IF bt_hdr # bt(j) THEN get_broadcast_type_str(bt(j))
                  ELSE "")
    IN  IF bd_len < 8
        THEN [fields |-> hdr, ret |-> -1, killed |-> FALSE]
        ELSE [fields |-> hdr \o [j \in 1..stop |-> Descriptor(j - 1)],
              ret |-> 0, killed |-> stop < num_bd]

(* smp_discover: the label tables and functions                            *)

(* Mutant: the reserved entries of the table not carrying their value.     *)
smp_attached_device_type_m ==
    <<"no device attached", "SAS or SATA device", "expander device",
      "expander device (fanout)", "reserved [4]", "reserved [4]",
      "reserved [4]", "reserved [4]">>

smp_attached_device_type ==
    <<"no device attached", "SAS or SATA device", "expander device",
      "expander device (fanout)", "reserved [4]", "reserved [5]",
      "reserved [6]", "reserved [7]">>

smp_short_attached_device_type ==
    <<"", "", "exp", "fex", "res", "res", "res", "res">>

smp_get_plink_rate(val, prog) ==
    CASE val = 8 -> "1.5 Gbps"
      [] val = 9 -> "3 Gbps"
      [] val = 10 -> "6 Gbps"
      [] val = 11 -> "12 Gbps"
      [] val = 12 -> "22.5 Gbps"
      [] OTHER -> IF prog /\ (0 = val) THEN "not programmable"
                  ELSE "reserved [" \o Dec(val) \o "]"

smp_get_reason(val) ==
    CASE val = 0 -> "unknown"
      [] val = 1 -> "power on"
      [] val = 2 -> "hard reset"
      [] val = 3 -> "SMP phy control requested"
      [] val = 4 -> "loss of dword synchronization"
      [] val = 5 -> "error in multiplexing (MUX) sequence"
      [] val = 6 -> "I_T nexus loss timeout STP/SATA"
      [] val = 7 -> "break timeout timer expired"
      [] val = 8 -> "phy test function stopped"
      [] val = 9 -> "expander reduced functionality"
      [] OTHER -> "reserved [" \o Dec(val) \o "]"

smp_get_neg_xxx_link_rate(val) ==
    CASE val = 0 -> "phy enabled; unknown"
      [] val = 1 -> "phy disabled"
      [] val = 2 -> "phy enabled; speed negotiation failed"
      [] val = 3 -> "phy enabled; SATA spinup hold state"
      [] val = 4 -> "phy enabled; port selector"
      [] val = 5 -> "phy enabled; reset in progress"
      [] val = 6 -> "phy enabled; unsupported phy attached"
      [] val = 8 -> "phy enabled, 1.5 Gbps"
      [] val = 9 -> "phy enabled, 3 Gbps"
      [] val = 10 -> "phy enabled, 6 Gbps"
      [] val = 11 -> "phy enabled, 12 Gbps"
      [] val = 12 -> "phy enabled, 22.5 Gbps"
      [] OTHER -> "reserved [" \o Dec(val) \o "]"

(* print_single(): switch (res) on the routing attribute.                  *)
RoutingAttribute(res) ==
    CASE res = 0 -> "direct"
      [] res = 1 -> "subtractive"
      [] res = 2 -> "table"
      [] OTHER -> "reserved [" \o Dec(res) \o "]"

(* Fields that are printed from one byte, without a label.                 *)
Bytes(off, names) == [i \in DOMAIN names |-> Field(names[i], off, off, "")]

(* print_single(): the report of one phy, in full or in brief, with        *)
(* op->verbose 0. The expander's SAS address is fetched when len > 23 and  *)
(* printed, as 0 when it was not fetched, in any case.                     *)
print_single(resp, l, just1, o) ==
    LET pl == resp.pl
        sas2 == resp.b3 # 0
        adt == pl.adt
        cc == When(sas2 /\ (o.do_brief = 0) /\ (pl.ecc > 0),
                   <<Field("expander change count", 4, 5, "")>>)
        phy == <<Field("phy identifier", 9, 9, "")>>
        head == (IF just1 THEN cc \o phy ELSE phy \o cc) \o
                <<Field("attached SAS device type", 12, 12,
                        smp_attached_device_type[adt + 1])>>
        upto32 ==
            When(sas2, <<Field("attached reason", 12, 12,
                               smp_get_reason(pl.reason))>>) \o
            <<Field("negotiated logical link rate", 13, 13,
                    smp_get_neg_xxx_link_rate(pl.negot)),
              Field("attached initiator", 14, 14, "")>> \o
            When(0 = o.do_brief,
                 Bytes(15, <<"attached sata port selector",
                             "STP buffer too small">>)) \o
            <<Field("attached target", 15, 15, ""),
              Field("SAS address", 16, 23, ""),
              Field("attached SAS address", 24, 31, ""),
              Field("attached phy identifier", 32, 32, "")>>
        upto43 ==
            When(0 = o.do_brief,
                 When(sas2,
                      Bytes(33, <<"attached persistent capable",
                                  "attached power capable",
                                  "attached slumber capable",
                                  "attached partial capable",
                                  "attached inside ZPSDS persistent",
                                  "attached requested inside ZPSDS",
                                  "attached break_reply capable">>) \o
                      Bytes(34, <<"attached apta capable",
                                  "attached smp priority capable",
                                  "attached pwr_dis capable">>)) \o
                 <<Field("programmed minimum physical link rate", 40, 40,
                         smp_get_plink_rate(0, TRUE)),
                   Field("hardware minimum physical link rate", 40, 40,
                         smp_get_plink_rate(0, FALSE)),
                   Field("programmed maximum physical link rate", 41, 41,
                         smp_get_plink_rate(0, TRUE)),
                   Field("hardware maximum physical link rate", 41, 41,
                         smp_get_plink_rate(0, FALSE)),
                   Field("phy change count", 42, 42, "")>> \o
                 Bytes(43, <<"virtual phy",
                             "partial pathway timeout value">>))
        routing == <<Field("routing attribute", 44, 44,
                           RoutingAttribute(pl.rattr))>>
        brief == When((l > 63) /\ (pl.zen # 0),
                      <<Field("zone group", 63, 63, "")>>)
        connector ==
            When(sas2 \/ (pl.b45 # 0),
                 <<Field("connector type", 45, 45, ""),
                   Field("connector element index", 46, 46, ""),
                   Field("connector physical link", 47, 47, "")>> \o
                 Bytes(48, <<"phy power condition", "sas power capable",
                             "sas slumber capable", "sas partial capable",
                             "sata slumber capable",
                             "sata partial capable">>) \o
                 Bytes(49, <<"pwr_dis signal", "pwr_dis control capable",
                             "sas slumber enabled", "sas partial enabled",
                             "sata slumber enabled",
                             "sata partial enabled">>))
        from76 ==
            <<Field("self-configuration status", 64, 64, ""),
              Field("self-configuration levels completed", 65, 65, ""),
              Field("self-configuration sas address", 68, 75, ""),
              Field("programmed phy capabilities", 76, 79, ""),
              Field("current phy capabilities", 80, 83, ""),
              Field("attached phy capabilities", 84, 87, "")>>
        from60 ==
            <<Field("attached device name", 52, 59, "")>> \o
            Bytes(60, <<"requested inside ZPSDS changed by expander",
                        "inside ZPSDS persistent", "requested inside ZPSDS",
                        "zone group persistent", "inside ZPSDS",
                        "zoning enabled">>) \o
            <<Field("zone group", 63, 63, "")>>
        tail ==
            When(l > 95,
                 <<Field("reason", 94, 94,
                         smp_get_reason((pl.b94 \div 16) % 16)),
                   Field("negotiated physical link rate", 94, 94,
                         smp_get_neg_xxx_link_rate(pl.b94 % 16))>> \o
                 Bytes(95, <<"optical mode enabled", "negotiated SSC",
                             "hardware muxing supported">>)) \o
            When(l > 107,
                 Bytes(96, <<"default inside ZPSDS persistent",
                             "default requested inside ZPSDS",
                             "default zone group persistent",
                             "default zoning enabled">>) \o
                 <<Field("default zone group", 99, 99, "")>> \o
                 Bytes(100, <<"saved inside ZPSDS persistent",
                              "saved requested inside ZPSDS",
                              "saved zone group persistent",
                              "saved zoning enabled">>) \o
                 <<Field("saved zone group", 103, 103, "")>> \o
                 Bytes(104, <<"shadow inside ZPSDS persistent",
                              "shadow requested inside ZPSDS",
                              "shadow zone group persistent",
                              "shadow zoning enabled">>) \o
                 <<Field("shadow zone group", 107, 107, "")>>) \o
            When(l > 109,
                 <<Field("device slot number", 108, 108, ""),
                   Field("device slot group number", 109, 109, "")>>) \o
            When(l > 115,
                 <<Field("device slot group output connector", 110, 115,
                         "")>>) \o
            When(l > 117, <<Field("STP buffer size", 116, 117, "")>>) \o
            When(l > 118,
                 <<Field("Buffered phy burst size (KiB)", 118, 118, "")>>)
    IN  IF (o.do_brief > 1) /\ (0 = adt) THEN head
        ELSE IF o.do_brief # 0 THEN head \o upto32 \o upto43 \o routing \o brief
        ELSE IF (l > 59) /\ (l < 76)
        THEN head \o upto32 \o upto43 \o routing \o connector \o from60
        ELSE head \o upto32 \o upto43 \o routing \o connector \o
             When(l > 59, from60 \o from76) \o tail

(* print_single_list(): the report of one phy as name=value lines.         *)
print_single_list(resp, l, show_exp_cc, do_brief) ==
    LET pl == resp.pl
        sas2 == resp.b3 # 0
        full == do_brief = 0
        F(name, off) == <<Field(name, off, off, "")>>
    IN  When(sas2 /\ show_exp_cc /\ full,
             <<Field("expander_cc", 4, 5, "")>>) \o
        F("phy_id", 9) \o
        When(full,
             When(sas2, F("att_apta_cap", 34) \o F("att_br_cap", 33)) \o
             When(l > 59, <<Field("att_dev_name", 52, 59, "")>>)) \o
        F("att_dev_type", 12) \o
        When(sas2 /\ full,
             Bytes(33, <<"att_iz_per", "att_pa_cap", "att_per_cap">>)) \o
        F("att_phy_id", 32) \o
        When(sas2 /\ full,
             F("att_pow_cap", 33) \o F("att_pwr_dis_cap", 34) \o
             F("att_reason", 12) \o F("att_req_iz", 33)) \o
        <<Field("att_sas_addr", 24, 31, "")>> \o
        F("att_sata_dev", 15) \o F("att_sata_host", 14) \o
        F("att_sata_ps", 15) \o
        When(sas2 /\ full, F("att_sl_cap", 33)) \o
        F("att_smp_init", 14) \o
        When(sas2 /\ full, F("att_smp_prior_cap", 34)) \o
        F("att_smp_targ", 15) \o F("att_ssp_init", 14) \o
        F("att_ssp_targ", 15) \o F("att_stp_init", 14) \o
        F("att_stp_targ", 15) \o
        When(full,
             When(l > 118, F("buff_phy_bs", 118)) \o
             When(sas2 \/ (pl.b45 # 0),
                  F("conn_elem_ind", 46) \o F("conn_p_link", 47) \o
                  F("conn_type", 45)) \o
             When(l > 109,
                  F("dev_slot_num", 108) \o F("dev_slot_grp_num", 109)) \o
             F("hw_max_p_lrate", 41) \o F("hw_min_p_lrate", 40) \o
             When(l > 95, F("hw_mux_sup", 95)) \o
             Bytes(60, <<"iz", "iz_pers">>)) \o
        F("neg_log_lrate", 13) \o
        When(full,
             When(l > 95, F("neg_phy_lrate", 94) \o F("opt_m_en", 95)) \o
             F("phy_cc", 42) \o F("phy_power_cond", 48) \o
             F("pp_timeout", 43) \o F("pr_max_p_lrate", 41) \o
             F("pr_min_p_lrate", 40) \o
             When(sas2, Bytes(49, <<"pwr_dis_ctl_cap", "pwr_dis_sig">>)) \o
             When(l > 95, F("reason", 94)) \o
             Bytes(60, <<"req_iz", "req_iz_cbe">>)) \o
        F("routing_attr", 44) \o
        <<Field("sas_addr", 16, 23, "")>> \o
        When(full,
             F("sas_pa_cap", 48) \o F("sas_pa_en", 49) \o
             F("sas_pow_cap", 48) \o F("sas_sl_cap", 48) \o
             F("sas_sl_en", 49) \o F("sata_pa_cap", 48) \o
             F("sata_pa_en", 49) \o F("sata_sl_cap", 48) \o
             F("sata_sl_en", 49) \o F("stp_buff_tsmall", 15)) \o
        F("virt_phy", 43) \o
        When(full, F("zg", 63) \o F("zg_pers", 60) \o F("zoning_en", 60))

(* do_multiple(): the one-line summary of a phy, as the fields the line    *)
(* holds; the empty sequence when the brief level leaves the phy out.      *)
(* d is the text dsn[] holds before this phy, t2t is has_t2t.              *)
SummaryLine(o, resp, l, t2t, d) ==
    LET pl == resp.pl
        adt == pl.adt
        negot == pl.negot
        cp == CASE pl.rattr = 0 -> "D"
                [] pl.rattr = 1 -> "S"
                [] pl.rattr = 2 -> IF t2t THEN "U" ELSE "T"
                [] OTHER -> "R"
        dsn1 == IF o.do_dsn /\ (l > 108) /\ (255 # pl.dsn)
                THEN "  dsn=" \o Dec(pl.dsn) ELSE d
        suffix == When(dsn1 # "", <<Field("dsn", 108, 108, dsn1)>>)
        routing == <<Field("routing", 44, 44, cp)>>
        state == CASE negot = 1 -> "disabled"
                   [] negot = 2 -> "reset problem"
                   [] negot = 3 -> "spinup hold"
                   [] negot = 4 -> "port selector"
                   [] negot = 5 -> "reset in progress"
                   [] OTHER -> "unsupported phy attached"
        rate == CASE negot = 8 -> "  1.5 Gbps"
                  [] negot = 9 -> "  3 Gbps"
                  [] negot = 10 -> "  6 Gbps"
                  [] negot = 11 -> "  12 Gbps"
                  [] negot = 12 -> "  22.5 Gbps"
                  [] OTHER -> ""
        zone == When((pl.zen # 0) /\ (1 # pl.zg),
                     <<Field("ZG", 63, 63, "")>>)
        attached ==
            <<Field("attached SAS address", 24, 31, ""),
              Field("attached phy identifier", 32, 32, "")>> \o
            When(o.do_adn /\ (l > 59),
                 <<Field("attached device name", 52, 59, "")>>) \o
            <<Field("attached device type", 12, 12,
                    smp_short_attached_device_type[adt + 1]),
              Field("virtual phy", 43, 43, "")>> \o
            When(pl.ini # 0, <<Field("initiator", 14, 14, "")>>) \o
            When(pl.tgt # 0, <<Field("target", 15, 15, "")>>)
    IN  IF (o.do_brief > 1) /\ (0 = adt) THEN <<>>
        ELSE IF negot \in 1..6
        THEN <<Field("phy", 9, 9, "")>> \o routing \o
             <<Field("state", 13, 13, state)>> \o suffix
        ELSE IF (o.do_brief > 0) /\ (0 = adt) THEN <<>>
        ELSE IF (0 = adt) \/ (adt > 3)
        THEN routing \o
             (IF (o.do_brief > 1) \/ o.do_adn \/ (l < 64) THEN <<>>
              ELSE zone \o suffix)
        ELSE IF (o.do_brief > 1) \/ o.do_adn
        THEN routing \o attached \o suffix
        ELSE routing \o attached \o
             <<Field("rate", 13, 13, rate)>> \o
             When(l > 63, zone) \o suffix

(* smp_rep_general main(): the decoded REPORT GENERAL response.            *)
RG_Decode(resp, l, do_change) ==
    IF do_change THEN <<Field("expander change count", 4, 5, "")>>
    ELSE
    <<Field("expander change count", 4, 5, ""),
      Field("expander route indexes", 6, 7, ""),
      Field("number of phys", 9, 9, "")>> \o
    Bytes(10, <<"table to table supported", "configures others",
                "configuring", "externally configurable route table">>) \o
    When(resp.pl.b12 # 0,
         <<Field("enclosure logical identifier", 12, 19, "")>>) \o
    When(l >= 36,
     <<Field("STP bus inactivity timer", 30, 31, ""),
       Field("STP maximum connect time", 32, 33, ""),
       Field("STP SMP I_T nexus loss time", 34, 35, "")>> \o
     When(l >= 40,
      Bytes(36, <<"number of zone groups", "zone locked",
                  "physical presence supported",
                  "physical presence asserted", "zoning supported",
                  "zoning enabled">>) \o
      <<Field("maximum number of routed SAS addresses", 38, 39, "")>> \o
      When(l >= 48,
       <<Field("active zone manager SAS address", 40, 47, "")>> \o
       When(l >= 50,
        <<Field("zone lock inactivity time limit", 48, 49, "")>> \o
        When(l >= 56,
         <<Field("first enclosure connector element index", 53, 53, ""),
           Field("number of enclosure connector element indexes", 54, 54,
                 "")>> \o
         When(l >= 60,
          Bytes(56, <<"reduced functionality">>) \o
          <<Field("time to reduced functionality", 57, 57, ""),
            Field("initial time to reduced functionality", 58, 58, ""),
            Field("maximum reduced functionality time", 59, 59, "")>> \o
          When(l >= 68,
           <<Field("last self-configuration status descriptor index",
                   60, 61, ""),
             Field("maximum number of stored self-configuration status descriptors",
                   62, 63, ""),
             Field("last phy event information descriptor index",
                   64, 65, ""),
             Field("maximum number of stored phy event information descriptors",
                   66, 67, "")>>)))))))

---------------------------------------------------------------------------
Init ==
    /\ util \in Utils
    /\ op \in CASE util = "discover" ->
                     {NormalizeOpts(o) : o \in DiscoverOpts}
                [] util = "conf_general" -> CG_Opts
                [] util = "rep_broadcast" -> RB_Opts
                [] OTHER -> RG_Opts
    /\ pc = "open"
    /\ rr = NoRR
    /\ deduced = 0
    /\ len = 0
    /\ rv = NoRv
    /\ ret = 0
    /\ num = 0
    /\ nphys = NoRv
    /\ has_t2t = FALSE
    /\ dsn = ""
    /\ nomem = ""
    /\ k = 0
    /\ reads = {}
    /\ sent = <<>>
    /\ hist = <<>>
    /\ out = <<>>
    /\ closed = <<>>
    /\ exit = NoExit

Single == {"rep_general", "conf_general", "rep_broadcast"}

(* main() of smp_conf_general: a bad argument ends it while the command    *)
(* line is read, before anything is opened.                                *)
SyntaxError ==
    /\ pc = "open"
    /\ util = "conf_general"
    /\ op.bad
    /\ exit' = SMP_LIB_SYNTAX_ERROR
    /\ pc' = "done"
    /\ UNCHANGED <<util, op, rr, deduced, len, rv, ret, num, nphys, has_t2t,
                   dsn, nomem, k, reads, sent, hist, out, closed>>

(* smp_initiator_open(): a failure ends main() at once.                    *)
Open ==
    /\ UNCHANGED <<nphys, has_t2t, dsn, nomem>>
    /\ pc = "open"
    /\ ~(util = "conf_general" /\ op.bad)
    /\ \E res \in {-1, 0} :
         IF res < 0
         THEN /\ exit' = SMP_LIB_FILE_ERROR
              /\ pc' = "done"
         ELSE /\ exit' = exit
              /\ pc' = IF util \in Single THEN "send" ELSE "dispatch"
    /\ UNCHANGED <<util, op, rr, deduced, len, rv, ret, num, k, reads, sent,
                   hist, out, closed>>

(* main() returning without smp_initiator_close().                         *)
Close_m ==
    /\ UNCHANGED <<nphys, has_t2t, dsn, nomem>>
    /\ pc = "close"
    /\ \E res \in {-1, 0} : exit' = ExitStatus(ret, res)
    /\ pc' = "done"
    /\ UNCHANGED <<util, op, rr, deduced, len, rv, ret, num, k, reads, sent,
                   hist, out, closed>>

(* err_out: smp_initiator_close() and the return of main().                *)
Close ==
    /\ UNCHANGED <<nphys, has_t2t, dsn, nomem>>
    /\ pc = "close"
    /\ \E res \in {-1, 0} :
         /\ exit' = ExitStatus(ret, res)
         /\ closed' = Append(closed, res)
    /\ pc' = "done"
    /\ UNCHANGED <<util, op, rr, deduced, len, rv, ret, num, k, reads, sent,
                   hist, out>>

---------------------------------------------------------------------------
(* smp_rep_general, smp_conf_general, smp_rep_broadcast: main()            *)

(* A request as handed to smp_send_req(): the frame, with the function and *)
(* the phy it was built for.                                               *)
Request(fn, phy, req) == [fn |-> fn, phy |-> phy, req |-> req]

(* History: the category of what an exchange met, after the taxonomy of    *)
(* failures: the transport failed, the response is malformed (too short,   *)
(* wrong frame type, wrong function code), the function result is not 0,   *)
(* or none of these. fres is the function result byte of a well-formed     *)
(* response.                                                               *)
Met(cat, fres) == [cat |-> cat, fres |-> fres]
MetBy(r, fn) ==
    IF (r.res # 0) \/ (r.transport_err # 0) THEN Met("transport", 0)
    ELSE IF r.act_response_len \in 0..3 THEN Met("malformed", 0)
    ELSE IF ~WellFormed(r.response, fn) THEN Met("malformed", 0)
    ELSE IF r.response.b2 # 0 THEN Met("fres", r.response.b2)
    ELSE Met("ok", 0)
(* History: something written to stdout: what kind of output, for which    *)
(* phy, with which length or number, and the fields of a field report in   *)
(* the order they are printed.                                             *)
Report(kind, phy, n, fields) ==
    [kind |-> kind, phy |-> phy, n |-> n, fields |-> fields]
Output(kind, phy, n) == Report(kind, phy, n, <<>>)
DumpKind(o) == IF o.do_hex # 0 THEN "hex" ELSE "raw"

(* smp_send_req() and the two tests of its outcome.                        *)
Send ==
    /\ UNCHANGED <<nphys, has_t2t, dsn, nomem>>
    /\ pc = "send"
    /\ util \in Single
    /\ \E o \in IF PlainOpts(util, op)
                THEN SendOutcomes(Responses(util, ReqFn(util)), ActLens)
                ELSE SendOutcomes(EnumResponses(util, ReqFn(util)), {-1, 3}) :
         /\ rr' = o
         /\ IF (o.res # 0) \/ (o.transport_err # 0)
            THEN ret' = -1 /\ pc' = "close"
            ELSE ret' = ret /\ pc' = "resolve"
         /\ hist' = Append(hist, MetBy(o, ReqFn(util)))
    /\ sent' = Append(sent, Request(ReqFn(util), 0, SingleRequest(util, op)))
    /\ reads' = {}
    /\ UNCHANGED <<util, op, deduced, len, rv, num, k, out, closed, exit>>

(* The short response test, then the length in bytes.                      *)
Resolve ==
    /\ UNCHANGED <<nphys, has_t2t, dsn, nomem>>
    /\ pc = "resolve"
    /\ util \in Single
    /\ IF ResponseTooShort(rr.act_response_len)
       THEN /\ ret' = SMP_LIB_CAT_MALFORMED
            /\ pc' = "close"
            /\ UNCHANGED <<deduced, len, reads>>
       ELSE /\ deduced' = IF util = "rep_general"
                          THEN ByteLen(RG_LenDwords(rr.response))
                          ELSE ByteLen(LenDwords(rr.response))
            /\ len' = IF util = "rep_general"
                      THEN RG_ResolvedLen(deduced', rr.act_response_len)
                      ELSE ClampLen(deduced', rr.act_response_len)
            /\ reads' = reads \cup (IF util = "rep_general"
                                    THEN RG_LenReads(rr.response)
                                    ELSE LenReads(rr.response))
            /\ pc' = "validate"
            /\ ret' = ret
    /\ UNCHANGED <<util, op, rr, rv, num, k, sent, hist, out, closed, exit>>

(* sizeof(smp_resp): the response buffer of the single exchange utilities, *)
(* and the one do_single() and do_multiple() allocate.                     *)
Capacity(u) ==
    CASE u = "rep_general" -> 128
      [] u = "conf_general" -> 8
      [] u = "rep_broadcast" -> SMP_FN_REPORT_BROADCAST_RESP_LEN
      [] OTHER -> SMP_FN_DISCOVER_RESP_LEN

(* The hex/raw branch, or the three tests of the structured path. The dump *)
(* reads len bytes of smp_resp[]: beyond the array the read is undefined,  *)
(* it yields some bytes or ends the process.                               *)
Validate ==
    /\ UNCHANGED <<nphys, has_t2t, dsn, nomem>>
    /\ pc = "validate"
    /\ util \in Single
    /\ IF Dumping(op)
       THEN \E crash \in IF len > Capacity(util) THEN BOOLEAN ELSE {FALSE} :
              IF crash
              THEN /\ exit' = Killed
                   /\ pc' = "done"
                   /\ UNCHANGED <<out, ret, reads>>
              ELSE /\ out' = Append(out, Output(DumpKind(op), -1, len))
                   /\ ret' = IF util = "conf_general"
                             THEN CG_DumpStatus(rr.response, ReqFn(util))
                             ELSE SeqDumpStatus(rr.response, ReqFn(util))
                   /\ reads' = reads \cup
                               (IF util = "conf_general"
                                THEN StatusReads(rr.response, ReqFn(util))
                                ELSE {0, 1, 2})
                   /\ pc' = "close"
                   /\ exit' = exit
       ELSE /\ out' = out
            /\ ret' = StructStatus(rr.response, ReqFn(util))
            /\ reads' = reads \cup StatusReads(rr.response, ReqFn(util))
            /\ pc' = IF (ret' = 0) /\ (util # "conf_general")
                     THEN "decode" ELSE "close"
            /\ exit' = exit
    /\ UNCHANGED <<util, op, rr, deduced, len, rv, num, k, sent, hist, closed>>

(* smp_rep_general: the field report of a successful response.            *)
Decode ==
    /\ UNCHANGED <<nphys, has_t2t, dsn, nomem>>
    /\ pc = "decode"
    /\ util = "rep_general"
    /\ out' = Append(out, Report("fields", -1, len,
                                  RG_Decode(rr.response, len, op.do_change)))
    /\ pc' = "close"
    /\ UNCHANGED <<util, op, rr, deduced, len, rv, ret, num, k, reads, sent,
                   hist, closed, exit>>

(* smp_rep_broadcast: the field report of a successful response. It gives  *)
(* up on a descriptor length below 8 bytes.                                *)
RB_DecodeStep ==
    /\ UNCHANGED <<nphys, has_t2t, dsn, nomem>>
    /\ pc = "decode"
    /\ util = "rep_broadcast"
    /\ \E g \in Indeterminate, crash \in BOOLEAN :
         LET d == RB_Decode(rr, g, crash)
         IN  /\ out' = Append(out, Report("fields", -1, len, d.fields))
             /\ ret' = IF d.ret # 0 THEN d.ret ELSE ret
             /\ IF d.killed
                THEN pc' = "done" /\ exit' = Killed
                ELSE pc' = "close" /\ exit' = exit
    /\ UNCHANGED <<util, op, rr, deduced, len, rv, num, k, reads, sent, hist,
                   closed>>

---------------------------------------------------------------------------
(* smp_discover                                                            *)

(* main(): do_multiple() or do_single(); each starts by allocating its     *)
(* response buffer.                                                        *)
Dispatch ==
    /\ UNCHANGED <<nphys, has_t2t, dsn>>
    /\ pc = "dispatch"
    /\ util = "discover"
    /\ \E alloc_ok \in BOOLEAN :
         IF ~alloc_ok
         THEN /\ ret' = SMP_LIB_RESOURCE_ERROR
              /\ nomem' = IF op.multiple # 0 THEN "do_multiple"
                          ELSE "do_single"
              /\ pc' = "close"
              /\ k' = k
         ELSE /\ ret' = ret
              /\ nomem' = nomem
              /\ pc' = IF op.multiple # 0 THEN "gnp_send" ELSE "dd_send"
              /\ k' = op.phy_id
    /\ UNCHANGED <<util, op, rr, deduced, len, rv, num, reads, sent, hist, out,
                   closed, exit>>

(* get_num_phys(): the allocation, smp_send_req() and the tests of its     *)
(* outcome.                                                                *)
GNP_Send ==
    /\ UNCHANGED <<nphys, has_t2t, dsn>>
    /\ pc = "gnp_send"
    /\ reads' = {}
    /\ \E alloc_ok \in BOOLEAN :
         IF ~alloc_ok
         THEN /\ rv' = SMP_LIB_RESOURCE_ERROR
              /\ nomem' = "get_num_phys"
              /\ pc' = "dm_range"
              /\ UNCHANGED <<rr, sent, hist>>
         ELSE /\ nomem' = nomem
              /\ sent' = Append(sent, Request(SMP_FN_REPORT_GENERAL, 0,
                                                RG_Request))
              /\ \E o \in IF SlotOpts(op)
                            THEN SendOutcomes(SlotPreQueryResponses, {-1})
                            ELSE SendOutcomes(PreQueryResponses,
                                              {-1, 3, 4, 10}) :
                   /\ rr' = o
                   /\ hist' = Append(hist, MetBy(o, SMP_FN_REPORT_GENERAL))
                   /\ IF (o.res # 0) \/ (o.transport_err # 0)
                      THEN rv' = -1 /\ pc' = "dm_range"
                      ELSE rv' = rv /\ pc' = "gnp_resolve"
    /\ UNCHANGED <<util, op, deduced, len, ret, num, k, out, closed, exit>>

(* get_num_phys(): the short response test, then the length in bytes.      *)
GNP_Resolve ==
    /\ UNCHANGED <<nphys, has_t2t, dsn, nomem>>
    /\ pc = "gnp_resolve"
    /\ IF ResponseTooShort(rr.act_response_len)
       THEN /\ rv' = -4 - SMP_LIB_CAT_MALFORMED
            /\ pc' = "dm_range"
            /\ UNCHANGED <<deduced, len, reads>>
       ELSE /\ deduced' = ByteLen(LenDwords(rr.response))
            /\ len' = ClampLen(deduced', rr.act_response_len)
            /\ reads' = reads \cup LenReads(rr.response)
            /\ pc' = "gnp_validate"
            /\ rv' = rv
    /\ UNCHANGED <<util, op, rr, ret, num, k, sent, hist, out, closed, exit>>

(* get_num_phys(): what is returned once the length is known.              *)
GNP_Return(resp, l) ==
    LET r == FuncReturn(resp, SMP_FN_REPORT_GENERAL, 0)
    IN  IF r # 0 THEN r
        ELSE IF l > 9 THEN resp.pl.b9 ELSE 0

(* get_num_phys(): the table to table bit, left as it was when the         *)
(* response is refused.                                                    *)
GNP_T2t(resp, l, was) ==
    IF FuncReturn(resp, SMP_FN_REPORT_GENERAL, 0) # 0 THEN was
    ELSE (l > 10) /\ (resp.pl.b10 >= 128)

GNP_Validate ==
    /\ UNCHANGED <<nphys, dsn, nomem>>
    /\ has_t2t' = GNP_T2t(rr.response, len, has_t2t)
    /\ pc = "gnp_validate"
    /\ rv' = GNP_Return(rr.response, len)
    /\ reads' = reads \cup StatusReads(rr.response, SMP_FN_REPORT_GENERAL)
    /\ pc' = "dm_range"
    /\ UNCHANGED <<util, op, rr, deduced, len, ret, num, k, sent, hist, out,
                   closed, exit>>

(* do_multiple(): num, the bound of the loop, from get_num_phys().         *)
LoopBound(n, o) ==
    IF n <= 0
    THEN (IF o.do_num # 0 THEN o.phy_id + o.do_num ELSE MAX_PHY_ID)
    ELSE LET m == n - o.phy_id
         IN  IF o.do_num # 0
             THEN (IF m > o.do_num THEN o.do_num ELSE m)
             ELSE m

DM_Range ==
    /\ nphys' = rv
    /\ UNCHANGED <<has_t2t, dsn, nomem>>
    /\ pc = "dm_range"
    /\ IF (rv > 0) /\ (op.phy_id >= rv)
       THEN /\ out' = Append(out, Output("beyond", op.phy_id, rv))
            /\ ret' = 0
            /\ pc' = "close"
            /\ UNCHANGED <<num, k>>
       ELSE /\ num' = LoopBound(rv, op)
            /\ k' = op.phy_id
            /\ pc' = IF k' < num' THEN "dd_send" ELSE "close"
            /\ UNCHANGED <<out, ret>>
    /\ rr' = NoRR
    /\ UNCHANGED <<util, op, deduced, len, rv, reads, sent, hist, closed, exit>>

(* The DISCOVER requests sent so far.                                      *)
Discovers == SelectSeq(sent, LAMBDA q : q.fn = SMP_FN_DISCOVER)

(* do_discover(): the request for phy k, smp_send_req() and the tests of   *)
(* its outcome. smp_req[9] is a byte.                                      *)
DD_Send ==
    /\ UNCHANGED <<nphys, has_t2t, dsn, nomem>>
    /\ pc = "dd_send"
    /\ Len(Discovers) < MaxExch
    /\ sent' = Append(sent, Request(SMP_FN_DISCOVER, k,
                                 DISCOVER_Request(op, k)))
    /\ reads' = {}
    /\ \E o \in IF SlotOpts(op)
                THEN SendOutcomes(SlotResponses, {-1})
                ELSE IF (op.multiple # 0) \/ ~PlainOpts(util, op)
                THEN SendOutcomes(EnumResponses(util, SMP_FN_DISCOVER), {-1, 3})
                ELSE SendOutcomes(Responses(util, SMP_FN_DISCOVER), ActLens)
                     \cup SendOutcomes(SweepResponses, {-1}) :
         /\ rr' = o
         /\ hist' = Append(hist, MetBy(o, SMP_FN_DISCOVER))
         /\ IF (o.res # 0) \/ (o.transport_err # 0)
            THEN rv' = -1 /\ pc' = "dd_return"
            ELSE rv' = rv /\ pc' = "dd_resolve"
    /\ UNCHANGED <<util, op, deduced, len, ret, num, k, out, closed, exit>>

(* do_discover(): the short response test, then the length in bytes.       *)
DD_Resolve ==
    /\ UNCHANGED <<nphys, has_t2t, dsn, nomem>>
    /\ pc = "dd_resolve"
    /\ IF ResponseTooShort(rr.act_response_len)
       THEN /\ rv' = -4 - SMP_LIB_CAT_MALFORMED
            /\ pc' = "dd_return"
            /\ UNCHANGED <<deduced, len, reads>>
       ELSE /\ deduced' = ByteLen(LenDwords(rr.response))
            /\ len' = ClampLen(deduced', rr.act_response_len)
            /\ reads' = reads \cup LenReads(rr.response)
            /\ pc' = "dd_validate"
            /\ rv' = rv
    /\ UNCHANGED <<util, op, rr, ret, num, k, sent, hist, out, closed, exit>>

(* do_discover(): the hex/raw branch or the structured tests; both return  *)
(* at the first test that fails.                                           *)
DD_Validate ==
    /\ UNCHANGED <<nphys, has_t2t, dsn, nomem>>
    /\ pc = "dd_validate"
    /\ out' = IF Dumping(op) THEN Append(out, Output(DumpKind(op), k, len))
              ELSE out
    /\ rv' = FuncReturn(rr.response, SMP_FN_DISCOVER, len)
    /\ reads' = reads \cup StatusReads(rr.response, SMP_FN_DISCOVER)
    /\ pc' = "dd_return"
    /\ UNCHANGED <<util, op, rr, deduced, len, ret, num, k, sent, hist, closed,
                   exit>>

(* do_single() after do_discover() has returned.                           *)
DS_Return ==
    /\ UNCHANGED <<nphys, has_t2t, dsn, nomem>>
    /\ pc = "dd_return"
    /\ op.multiple = 0
    /\ LET r0 == RetOfLen(rv)
           ull == IF rv > 23 THEN rr.response.pl.sa ELSE 0
       IN  IF Dumping(op)
           THEN ret' = r0 /\ out' = out
           ELSE IF op.do_my
           THEN /\ out' = Append(out, Output("my", op.phy_id, ull))
                /\ ret' = IF (ull > 0) /\ (SMP_FRES_PHY_VACANT = r0)
                          THEN 0 ELSE r0
           ELSE IF r0 # 0
           THEN /\ ret' = r0
                /\ out' = IF SMP_FRES_PHY_VACANT = r0
                          THEN Append(out, Output("vacant", op.phy_id, 0))
                          ELSE out
           ELSE /\ ret' = 0
                /\ out' = Append(out,
                     IF op.do_list
                     THEN Report("list", op.phy_id, rv,
                                 print_single_list(rr.response, rv, TRUE,
                                                   op.do_brief))
                     ELSE Report("full", op.phy_id, rv,
                                 print_single(rr.response, rv, TRUE, op)))
    /\ pc' = "close"
    /\ UNCHANGED <<util, op, rr, deduced, len, rv, num, k, reads, sent, hist,
                   closed, exit>>

(* do_multiple(): whether the one-line summary prints a line for a phy.    *)
SummaryLineShown(o, pl) ==
    /\ ~((o.do_brief > 1) /\ (0 = pl.adt))
    /\ \/ pl.negot \in 1..6
       \/ ~((o.do_brief > 0) /\ (0 = pl.adt))

(* do_multiple(): what is printed for a phy whose DISCOVER succeeded. A    *)
(* phy the brief level leaves out of the summary is entered as "hidden",   *)
(* which stands for no output.                                             *)
PhyOutput(o, phy, resp, l, t2t, d) ==
    IF Dumping(o) THEN <<>>
    ELSE IF o.do_list
    THEN <<Report("list", phy, l,
                  print_single_list(resp, l, FALSE, o.do_brief))>>
    ELSE IF o.multiple > 1
    THEN <<Report("full", phy, l, print_single(resp, l, FALSE, o))>>
    ELSE IF SummaryLineShown(o, resp.pl)
    THEN <<Report("line", phy, l, SummaryLine(o, resp, l, t2t, d))>>
    ELSE <<Output("hidden", phy, l)>>

(* do_multiple(): the text in dsn[] after a phy whose DISCOVER succeeded.   *)
DsnAfter(o, resp, l, d) ==
    IF Dumping(o) \/ o.do_list \/ (o.multiple > 1) THEN d
    ELSE IF (o.do_brief > 1) /\ (0 = resp.pl.adt) THEN d
    ELSE IF o.do_dsn /\ (l > 108) /\ (255 # resp.pl.dsn)
    THEN "  dsn=" \o Dec(resp.pl.dsn)
    ELSE d

(* Mutant: the loop going on after NO_PHY as it does after PHY_VACANT.     *)
LoopStep_m(r) ==
    IF (SMP_FRES_PHY_VACANT = r) \/ (SMP_FRES_NO_PHY = r) THEN "vacant"
    ELSE IF r # 0 THEN "fail"
    ELSE "report"

(* do_multiple(): what the loop does with ret after do_discover().         *)
LoopStep(r) ==
    IF SMP_FRES_NO_PHY = r THEN "end"
    ELSE IF SMP_FRES_PHY_VACANT = r THEN "vacant"
    ELSE IF r # 0 THEN "fail"
    ELSE "report"

(* do_multiple(): ret when the loop is left or continued.                  *)
LoopRet(r) == IF SMP_FRES_NO_PHY = r THEN 0 ELSE r

(* do_multiple(): the body of the loop after do_discover() has returned,   *)
(* and the step to the next phy.                                           *)
DM_Return ==
    /\ UNCHANGED <<nphys, has_t2t, nomem>>
    /\ pc = "dd_return"
    /\ op.multiple # 0
    /\ LET r0 == RetOfLen(rv)
           step == LoopStep(r0)
       IN  /\ ret' = LoopRet(r0)
           /\ out' = CASE step = "vacant" -> Append(out, Output("vacant", k, 0))
                       [] step = "report" ->
                            out \o PhyOutput(op, k, rr.response, rv, has_t2t,
                                             dsn)
                       [] OTHER -> out
           /\ dsn' = IF step = "report" THEN DsnAfter(op, rr.response, rv, dsn)
                     ELSE dsn
           /\ IF step \in {"end", "fail"}
              THEN pc' = "close" /\ k' = k
              ELSE /\ k' = k + 1
                   /\ pc' = IF k' < num THEN "dd_send" ELSE "close"
    /\ rr' = NoRR
    /\ UNCHANGED <<util, op, deduced, len, rv, num, reads, sent, hist, closed,
                   exit>>

---------------------------------------------------------------------------
Next ==
    \/ SyntaxError
    \/ Open
    \/ Send
    \/ Resolve
    \/ Validate
    \/ Decode
    \/ RB_DecodeStep
    \/ Dispatch
    \/ GNP_Send
    \/ GNP_Resolve
    \/ GNP_Validate
    \/ DM_Range
    \/ DD_Send
    \/ DD_Resolve
    \/ DD_Validate
    \/ DS_Return
    \/ DM_Return
    \/ Close

Spec == Init /\ [][Next]_vars

---------------------------------------------------------------------------
(* Properties                                                              *)

(* The states in which the length of the current response has just been    *)
(* resolved: the short response test passed and len is set.                *)
LengthResolved == pc \in {"validate", "gnp_validate", "dd_validate"}

(* The length in dwords as the resolver is described: byte 3 when it is    *)
(* not 0, else the table's entry for the echoed function code when the     *)
(* function result is 0 (0 when the table has none), else 0.               *)
DescribedDwords(r) ==
    IF r.b3 # 0 THEN r.b3
    ELSE IF r.b2 = 0
         THEN (IF smp_get_func_def_resp_len(r.b1) < 0 THEN 0
               ELSE smp_get_func_def_resp_len(r.b1))
         ELSE 0

(* C1: in every utility the length before clamping is 4 + 4*L, L being     *)
(* byte 3 when non-zero, the default table entry when byte 3 and the       *)
(* function result are 0, and 0 when byte 3 is 0 and the function result   *)
(* is not. smp_rep_general consults the table whatever the function result *)
(* is, so this fails there.                                                *)
C1_DeducedLength ==
    LengthResolved => deduced = 4 + 4 * DescribedDwords(rr.response)

(* C2: in every utility, when the transport reports an actual length       *)
(* a >= 0 and the computed length exceeds a, the resolved length is a; a   *)
(* negative a leaves the computed length unchanged. smp_rep_general never  *)
(* looks at the actual length once the short response test has passed.     *)
C2_ClampedToActual ==
    LengthResolved =>
        len = IF (rr.act_response_len >= 0) /\ (deduced > rr.act_response_len)
              THEN rr.act_response_len
              ELSE deduced

(* C3 as claimed: the resolved byte length is never negative and has the   *)
(* form 4 + 4*k, k >= 0.                                                   *)
C3_Claimed ==
    LengthResolved => (len >= 0) /\ (\E n \in 0..255 : len = 4 + 4 * n)

(* C3 amended: the resolved byte length is at least 4, and it has the form *)
(* 4 + 4*k, 0 <= k <= 255, unless it was clamped to the actual transport   *)
(* length, which it then equals.                                           *)
C3_ResolvedForm ==
    LengthResolved =>
        /\ len >= 4
        /\ \/ \E n \in 0..255 : len = 4 + 4 * n
           \/ len = rr.act_response_len /\ len < deduced

C3_Witness ==
    /\ LengthResolved
    /\ util # "rep_general"
    /\ rr.act_response_len = 10
    /\ deduced = 24
    /\ len = 10

Last(q) == q[Len(q)]

(* The exchange in hand had no transport failure and the transport says it *)
(* received 0..3 bytes.                                                    *)
ShortMet ==
    /\ rr.res = 0
    /\ rr.transport_err = 0
    /\ rr.act_response_len \in 0..3

(* C4: in every utility, when the transport reports an actual length in    *)
(* 0..3 the exchange ends with the malformed-response outcome before byte  *)
(* 3 or any other response byte is read, whatever the buffer holds and     *)
(* whatever the output mode: once the short response test has run, no      *)
(* header byte has been read, nothing of that response is in the output,   *)
(* get_num_phys() and do_discover() have returned -4 - MALFORMED, and the  *)
(* single exchange utilities and do_single() end with MALFORMED.           *)
C4_ShortResponse ==
    (ShortMet /\ pc \notin {"resolve", "gnp_resolve", "dd_resolve"}) =>
        /\ reads = {}
        /\ \A i \in DOMAIN out :
              \/ out[i].kind = "my" /\ out[i].n = 0
              \/ op.multiple # 0 /\ out[i].phy # k
        /\ \/ pc \in {"dm_range", "dd_return"} /\
              rv = -4 - SMP_LIB_CAT_MALFORMED
           \/ pc = "close" /\ ret = SMP_LIB_CAT_MALFORMED
           \/ pc = "done" /\ ret = SMP_LIB_CAT_MALFORMED /\
              exit = SMP_LIB_CAT_MALFORMED

C4_Witness ==
    /\ ShortMet
    /\ rr.act_response_len = 2
    /\ rr.response.b3 # 0
    /\ Dumping(op)
    /\ pc = "done"
    /\ exit = SMP_LIB_CAT_MALFORMED

(* Nothing decoded from a response is in the output.                       *)
NothingDecoded ==
    \A i \in DOMAIN out :
        \/ out[i].kind = "vacant"
        \/ out[i].kind = "my" /\ out[i].n = 0

(* C5, the states: in structured mode a response is classed malformed when *)
(* byte 0 is not 0x41, else malformed when byte 1 is not the function code *)
(* sent, else a function result failure with status byte 2 when byte 2 is  *)
(* not 0, else success; nothing is decoded unless it is a success.         *)
C5_Classified ==
    (~Dumping(op) /\ hist # <<>> /\ Last(hist).cat # "transport") =>
        LET h == Last(hist)
            status == IF h.cat = "malformed" THEN SMP_LIB_CAT_MALFORMED
                      ELSE h.fres
        IN  /\ (util \in Single /\ pc \in {"decode", "close", "done"}) =>
                  /\ h.cat # "ok" => ret = status /\ NothingDecoded
                  /\ (h.cat = "ok" /\ util # "rep_broadcast") => ret = 0
                  /\ (h.cat = "ok" /\ pc = "decode") => ret = 0
            /\ pc = "decode" => h.cat = "ok"
            /\ pc = "dd_return" =>
                  rv = IF h.cat = "ok" THEN len ELSE -4 - status
            /\ (pc = "dm_range" /\ Last(sent).fn = SMP_FN_REPORT_GENERAL) =>
                  IF h.cat = "ok" THEN rv >= 0 ELSE rv = -4 - status
            /\ (util = "discover" /\ op.multiple = 0 /\
                pc \in {"close", "done"}) =>
                  /\ ret = status
                  /\ h.cat # "ok" => NothingDecoded

(* C5, the steps of the enumeration: a DISCOVER response that is not a     *)
(* success adds nothing decoded to the output.                             *)
C5_Step ==
    (pc = "dd_return" /\ op.multiple # 0 /\ ~Dumping(op) /\
     Last(hist).cat # "ok") =>
        \A i \in (Len(out) + 1)..Len(out') : out'[i].kind = "vacant"

(* C5: the classification order of the validator in structured mode, and   *)
(* decoding in the success case only.                                      *)
C5_ValidatorOrder == [] C5_Classified /\ [][C5_Step]_vars

C5_Witness ==
    /\ util \in Single
    /\ ~Dumping(op)
    /\ pc = "close"
    /\ rr.response.b0 # SMP_FRAME_TYPE_RESP
    /\ rr.response.b2 # 0
    /\ ~ShortMet
    /\ ret = SMP_LIB_CAT_MALFORMED

(* C6: with hex or raw output the exit status is the one structured mode   *)
(* gives for the same response bytes: a frame type or function code        *)
(* mismatch gives the malformed status even when byte 2 is not 0. The      *)
(* hex/raw branches of smp_rep_general and smp_rep_broadcast let byte 2    *)
(* overwrite the malformed status.                                         *)
C6_DumpStatusAsStructured ==
    (Dumping(op) /\ util \in Single /\ pc = "done" /\ closed = <<0>> /\
     hist # <<>> /\ Last(hist).cat # "transport" /\ ~ShortMet) =>
        exit = StructStatus(rr.response, ReqFn(util))

(* C7: a failed send or a transport error is fatal for the invocation: no  *)
(* byte of that response is read, no further request is sent and the exit  *)
(* status is not 0. do_multiple() carries on with the DISCOVER requests    *)
(* when the REPORT GENERAL it starts with fails in the transport.          *)
C7_TransportFatal ==
    \A i \in DOMAIN hist :
        hist[i].cat = "transport" =>
            /\ Len(sent) = i
            /\ reads = {}
            /\ pc = "done" => exit # 0

(* C8: the value an exchange returns, and the exit status, name one        *)
(* category: a function result failure never gives the return value or the *)
(* exit status of a malformed response, a transport failure or a resource  *)
(* failure. A function result byte equal to a library status does.         *)
C8_DistinctOutcomes ==
    (hist # <<>> /\ Last(hist).cat = "fres") =>
        /\ pc = "dd_return" =>
              rv \notin {-4 - SMP_LIB_CAT_MALFORMED, -1, SMP_LIB_RESOURCE_ERROR}
        /\ (pc = "done" /\ closed = <<0>>) =>
              exit \notin {SMP_LIB_CAT_MALFORMED, SMP_LIB_CAT_OTHER,
                           SMP_LIB_RESOURCE_ERROR}

(* The enumeration's last DISCOVER met the function result fres.           *)
LastDiscoverMet(fres) ==
    /\ util = "discover"
    /\ op.multiple # 0
    /\ sent # <<>>
    /\ Last(sent).fn = SMP_FN_DISCOVER
    /\ Last(hist) = Met("fres", fres)

C10_VacantIsBenign ==
    (/\ util = "discover"
     /\ op.multiple # 0
     /\ pc = "done"
     /\ closed = <<0>>
     /\ sent # <<>>
     /\ sent[1].fn = SMP_FN_REPORT_GENERAL
     /\ \E i \in DOMAIN hist : hist[i] = Met("fres", SMP_FRES_PHY_VACANT)
     /\ \A i \in DOMAIN hist :
           \/ hist[i].cat = "ok"
           \/ hist[i].cat = "fres" /\
              hist[i].fres \in {SMP_FRES_PHY_VACANT, SMP_FRES_NO_PHY}) =>
        exit = 0

(* The enumeration has ended after a REPORT GENERAL that told the number   *)
(* of phys, and the first phy asked for is one of them.                    *)
EnumerationOver ==
    /\ util = "discover"
    /\ op.multiple # 0
    /\ pc \in {"close", "done"}
    /\ sent # <<>>
    /\ sent[1].fn = SMP_FN_REPORT_GENERAL
    /\ hist[1].cat = "ok"
    /\ nphys > op.phy_id

(* C11: a malformed DISCOVER response for a phy ends that exchange only:   *)
(* every phy after it that the loop was to visit is asked for as well.     *)
(* do_multiple() leaves the loop on any non-zero ret but NO_PHY and        *)
(* PHY_VACANT, the status of a malformed response included.                *)
C11_MalformedSparesRest ==
    EnumerationOver =>
        \A i \in DOMAIN sent :
            (sent[i].fn = SMP_FN_DISCOVER /\ hist[i].cat = "malformed") =>
                \A p \in (sent[i].phy + 1)..(num - 1) :
                    \E j \in DOMAIN sent :
                        /\ j > i
                        /\ sent[j].fn = SMP_FN_DISCOVER
                        /\ sent[j].phy = p

(* The number of phys to visit from phy p on, of N phys, with --num=n.     *)
PhysToVisit(p, n, N) ==
    IF n = 0 THEN N - p ELSE (IF n < N - p THEN n ELSE N - p)

(* C12: with starting phy p, count n and N phys (p < N), an enumeration    *)
(* that nothing ends early sends exactly one DISCOVER for each of the phys *)
(* p .. p+m-1, in ascending order. The loop of do_multiple() runs k from p *)
(* while k < m, so for p > 0 it stops p phys early.                        *)
C12_OneRequestPerPhy ==
    (/\ EnumerationOver
     /\ \A i \in DOMAIN hist :
           \/ hist[i].cat = "ok"
           \/ hist[i] = Met("fres", SMP_FRES_PHY_VACANT)) =>
        /\ Len(Discovers) = PhysToVisit(op.phy_id, op.do_num, nphys)
        /\ \A i \in DOMAIN Discovers :
              Discovers[i].phy = op.phy_id + i - 1

(* The length of each function's request frame as the frame builder is     *)
(* described.                                                              *)
DescribedRequestLen(fn) ==
    CASE fn = SMP_FN_REPORT_GENERAL -> 8
      [] fn = SMP_FN_CONFIG_GENERAL -> 24
      [] fn = SMP_FN_DISCOVER -> 16
      [] fn = SMP_FN_REPORT_BROADCAST -> 12

(* C13: whatever the parameters, every request handed to smp_send_req() is *)
(* a frame of its function's fixed length (REPORT GENERAL 8, CONFIGURE     *)
(* GENERAL 24, DISCOVER 16, REPORT BROADCAST 12 bytes) whose byte 0 is the *)
(* request marker 0x40 and whose byte 1 is the code of the function the    *)
(* utility is asking for.                                                  *)
C13_FrameShape ==
    \A i \in DOMAIN sent :
        /\ sent[i].fn \in
              IF util = "discover"
              THEN {SMP_FN_REPORT_GENERAL, SMP_FN_DISCOVER}
              ELSE {ReqFn(util)}
        /\ DOMAIN sent[i].req = 0..(DescribedRequestLen(sent[i].fn) - 1)
        /\ sizeof(sent[i].req) = DescribedRequestLen(sent[i].fn)
        /\ sent[i].req[0] = 64
        /\ sent[i].req[1] = sent[i].fn

C13_Witness ==
    /\ util = "discover"
    /\ op.ign_zp
    /\ ~op.do_zero
    /\ Len(sent) = 3
    /\ sent[1].fn = SMP_FN_REPORT_GENERAL
    /\ sent[3].fn = SMP_FN_DISCOVER
    /\ sent[3].phy = 1

(* The eight optional parameters of CONFIGURE GENERAL as main() holds them *)
(* once the command line is read: whether the parameter was given, its     *)
(* bit in byte 8, and the offset and width in bytes of its value field.    *)
CG_Fields(o) ==
    {[given |-> o.do_itdefoi, bit |-> 128, off |-> 9, width |-> 1,
      val |-> o.itdefoi_val],
     [given |-> o.do_connect, bit |-> 2, off |-> 12, width |-> 2,
      val |-> o.connect_val],
     [given |-> o.do_inactivity, bit |-> 1, off |-> 10, width |-> 2,
      val |-> o.inactivity_val],
     [given |-> o.do_nexus, bit |-> 4, off |-> 14, width |-> 2,
      val |-> o.nexus_val],
     [given |-> o.do_open, bit |-> 16, off |-> 18, width |-> 2,
      val |-> o.open_val],
     [given |-> o.do_pdt, bit |-> 32, off |-> 17, width |-> 1,
      val |-> o.power_val],
     [given |-> o.do_reduced, bit |-> 8, off |-> 16, width |-> 1,
      val |-> o.reduced_val],
     [given |-> o.do_ssp, bit |-> 64, off |-> 6, width |-> 2,
      val |-> o.ssp_ctl]}

BitIsSet(b, bit) == (b \div bit) % 2 = 1

(* The number held in the one or two bytes at off, most significant byte   *)
(* first.                                                                  *)
FieldValue(r, off, width) ==
    IF width = 1 THEN r[off] ELSE (r[off] * 256) + r[off + 1]

(* C14: in the CONFIGURE GENERAL request, for every subset of the eight    *)
(* optional parameters that main() holds as given, byte 8 has exactly the  *)
(* bits of the given parameters set, each parameter having a bit of its    *)
(* own; each given value stands in its own field, no two fields sharing a  *)
(* byte; and the field of every parameter not given is zero.               *)
C14_ModifierBits ==
    (util = "conf_general" /\ sent # <<>>) =>
        LET r == sent[1].req
            F == CG_Fields(op)
        IN  /\ r[8] \in 0..255
            /\ \A f \in F : BitIsSet(r[8], f.bit) <=> f.given
            /\ \A f \in F :
                  FieldValue(r, f.off, f.width) =
                      (IF f.given THEN f.val ELSE 0)
            /\ \A f \in F, g \in F :
                  f # g =>
                     /\ f.bit # g.bit
                     /\ (f.off + f.width <= g.off) \/
                        (g.off + g.width <= f.off)

C14_Witness ==
    /\ util = "conf_general"
    /\ sent # <<>>
    /\ op.do_connect /\ op.do_nexus /\ op.do_ssp /\ op.do_itdefoi
    /\ ~op.do_pdt /\ ~op.do_reduced /\ ~op.do_open /\ ~op.do_inactivity
    /\ sent[1].req[8] = 198
    /\ sent[1].req[14] = 5 /\ sent[1].req[15] = 6

(* The options of a command line that give the STP SMP I_T nexus loss      *)
(* time: -n NE and --nexus=NE.                                             *)
NexusOpts(args) ==
    {i \in DOMAIN args :
        args[i].name = (IF args[i].long THEN "nexus" ELSE "n")}

(* The command line without its i-th option.                               *)
Without(args, i) ==
    [j \in 1..(Len(args) - 1) |-> IF j < i THEN args[j] ELSE args[j + 1]]

(* C15: giving the nexus loss time NE (0..65535) as --nexus=NE or as       *)
(* -n NE is no syntax error, sets bit 0x4 of request byte 8, writes NE     *)
(* big-endian at bytes 14..15, and leaves the power done timeout's bit     *)
(* 0x20 and byte 17 as the rest of the command line makes them.            *)
(* long_options[] enters "nexus" with the letter of --power.               *)
C15_NexusOption ==
    \A i \in (IF util = "conf_general" /\ pc \in {"close", "done"}
              THEN NexusOpts(op.argv) ELSE {}) :
        (Cardinality(NexusOpts(op.argv)) = 1 /\
         op.argv[i].arg \in 0..65535) =>
            LET rest == CG_Request(CG_Parse(CG_DefaultOpts,
                                            Without(op.argv, i)))
            IN  /\ ~op.bad
                /\ sent # <<>> =>
                     /\ BitIsSet(sent[1].req[8], 4)
                     /\ FieldValue(sent[1].req, 14, 2) = op.argv[i].arg
                     /\ BitIsSet(sent[1].req[8], 32) = BitIsSet(rest[8], 32)
                     /\ sent[1].req[17] = rest[17]

(* smp_rep_broadcast has decoded a successful response whose bytes 10 and  *)
(* 11 the transport received.                                              *)
BroadcastDecoded ==
    /\ util = "rep_broadcast"
    /\ ~Dumping(op)
    /\ pc \in {"close", "done"}
    /\ hist = <<Met("ok", 0)>>
    /\ out # <<>>
    /\ 11 < RB_Received(rr)

(* The descriptors of the last report, in the order they were printed.     *)
DescriptorsShown ==
    SelectSeq(Last(out).fields, LAMBDA f : f.name = "Descriptor")

C17_ShortDescriptor ==
    (BroadcastDecoded /\ rr.response.pl.b10 < 2) =>
        /\ DescriptorsShown = <<>>
        /\ (pc = "done" /\ closed = <<0>>) => exit = SMP_LIB_CAT_MALFORMED


---------------------------------------------------------------------------
(* The decoded fields and the resolved length                              *)

(* The reports of decoded fields of the utilities that decode REPORT       *)
(* GENERAL and DISCOVER responses; n is the resolved length in bytes.      *)
Decoded ==
    {i \in DOMAIN out :
        /\ util \in {"rep_general", "discover"}
        /\ out[i].kind \in {"fields", "full", "list", "line"}}

(* C18: every field the REPORT GENERAL and DISCOVER decoders emit lies in  *)
(* bytes below the resolved length of the response; a field at or beyond   *)
(* that length is absent.                                                  *)
C18_FieldsBelowLength ==
    \A i \in Decoded :
        \A j \in DOMAIN out[i].fields : out[i].fields[j].hi < out[i].n

(* The DISCOVER reports of a response whose resolved length is 40.         *)
Truncated40 ==
    {i \in DOMAIN out :
        /\ util = "discover"
        /\ out[i].kind \in {"full", "list", "line"}
        /\ out[i].n = 40}

(* C19: a DISCOVER response of resolved length 40 is reported, in each     *)
(* presentation mode, without the fields whose threshold is above 40 (the  *)
(* zone fields of bytes 60 and 63 among them) and with the fields gated at *)
(* 40 or less (the phy identifier of byte 9 is one in the full and the     *)
(* list mode). The fields print_single() gates above 40 start at byte 52,  *)
(* with the attached device name.                                          *)
C19_TruncatedTo40 ==
    \A i \in Truncated40 :
        /\ \A j \in DOMAIN out[i].fields :
               out[i].fields[j].lo < 52
        /\ out[i].kind \in {"full", "list"} =>
               \E j \in DOMAIN out[i].fields : out[i].fields[j].lo = 9


---------------------------------------------------------------------------
(* The labels of the enumerated fields                                     *)

(* A label that says a value is reserved and carries the value, in one of  *)
(* the two spellings the utilities use.                                    *)
ReservedLabels(v) ==
    {"reserved [" \o Dec(v) \o "]", "Reserved [0x" \o Hex(v) \o "]"}

(* label is a label for the wire value v of a field whose assigned values  *)
(* are the set assigned: a name of its own for an assigned value, a        *)
(* reserved label carrying v for any other.                                *)
Labelled(label, v, assigned) ==
    IF v \in assigned
    THEN (label # "") /\ (\A w \in 0..15 : label \notin ReservedLabels(w))
    ELSE label \in ReservedLabels(v)

(* The wire value and the assigned values of the enumerated fields of a    *)
(* full DISCOVER report and of a REPORT BROADCAST report.                  *)
EnumeratedValue(name, pl) ==
    CASE name = "attached SAS device type" -> <<pl.adt, 0..3>>
      [] name = "attached reason" -> <<pl.reason, 0..9>>
      [] name = "negotiated logical link rate" ->
             <<pl.negot, (0..6) \cup (8..12)>>
      [] name = "routing attribute" -> <<pl.rattr, 0..2>>
      [] name = "reason" -> <<(pl.b94 \div 16) % 16, 0..9>>
      [] name = "negotiated physical link rate" ->
             <<pl.b94 % 16, (0..6) \cup (8..12)>>
      [] name = "broadcast type" -> <<pl.b6 % 16, 0..8>>
      [] name = "Descriptor" -> <<pl.dbt % 16, 0..8>>
      [] OTHER -> <<>>

(* The reports whose response is still the one in rr: the full report of   *)
(* one phy, and the REPORT BROADCAST report of a response received whole.  *)
LabelledReports ==
    {i \in DOMAIN out :
        \/ util = "discover" /\ op.multiple = 0 /\ out[i].kind = "full"
        \/ util = "rep_broadcast" /\ out[i].kind = "fields" /\
           rr.act_response_len = -1}

(* C20: every wire value of an enumerated field is reported with a label,  *)
(* the table's for a value in the table and a reserved label carrying the  *)
(* value for any other; the fields after it are reported as for any other  *)
(* value (the full report of a 120 byte response runs to byte 118, the     *)
(* REPORT BROADCAST report holds its descriptors) and no error is raised.  *)
(* A descriptor is labelled when its type differs from the header's; one   *)
(* read outside smp_resp[] does not show a byte of the response.           *)
C20_LabelForEveryValue ==
    \A i \in LabelledReports :
        LET pl == rr.response.pl
            fs == out[i].fields
        IN  /\ \A j \in DOMAIN fs :
                 LET e == EnumeratedValue(fs[j].name, pl)
                 IN  /\ e # <<>>
                     /\ fs[j].hi < SMP_FN_REPORT_BROADCAST_RESP_LEN
                     /\ ~(fs[j].name = "Descriptor" /\ fs[j].label = "")
                     => Labelled(fs[j].label, e[1], e[2])
            /\ util = "discover" =>
                 /\ \E j \in DOMAIN fs : fs[j].name = "attached SAS device type"
                 /\ (op.do_brief = 0) /\ (out[i].n > 118) =>
                        fs[Len(fs)].lo = 118
                 /\ ret = 0
            /\ util = "rep_broadcast" /\ (pl.b10 = 2) =>
                 /\ Len(SelectSeq(fs, LAMBDA f : f.name = "Descriptor")) =
                        pl.b11
                 /\ pc = "close" => ret = 0

(* Attached device type 5 reported with its reserved label, the report     *)
(* going on to the routing attribute.                                      *)
C20_Witness ==
    /\ util = "discover"
    /\ rr.response.pl.adt = 5
    /\ \E i \in LabelledReports :
         /\ \E j \in DOMAIN out[i].fields :
              /\ out[i].fields[j].name = "attached SAS device type"
              /\ out[i].fields[j].label = "reserved [5]"
         /\ \E j \in DOMAIN out[i].fields :
              out[i].fields[j].name = "routing attribute"


---------------------------------------------------------------------------
(* Allocation failure                                                      *)

(* C21: once the allocation of a response buffer has failed in a DISCOVER  *)
(* invocation (in do_single(), do_multiple() or get_num_phys(), each       *)
(* before any request of its own), no request is sent and the invocation   *)
(* ends with the resource error status.                                    *)
C21_AllocationFatal ==
    (nomem # "") =>
        /\ sent = <<>>
        /\ (exit # NoExit) => (exit = SMP_LIB_RESOURCE_ERROR)


---------------------------------------------------------------------------
(* Failure and decoded values                                              *)

(* The entries of the output that show values decoded from a response.     *)
ValuesShown ==
    {i \in DOMAIN out : out[i].kind \in {"my", "full", "list", "fields",
                                         "line"}}

(* The exchanges that ended in success and whose response is one the       *)
(* utility decodes for the output (the REPORT GENERAL of get_num_phys() is *)
(* not).                                                                   *)
Decodable ==
    {i \in DOMAIN hist :
        /\ hist[i].cat = "ok"
        /\ (util = "discover") => (sent[i].fn = SMP_FN_DISCOVER)}

(* C22: in structured mode an exchange that ended in a failure puts no     *)
(* decoded value in the output: the output shows values for no more        *)
(* exchanges than succeeded; DISCOVER with --my prints no SAS address when  *)
(* its exchange failed.                                                    *)
C22_NoValueOnFailure ==
    (~Dumping(op)) => (Cardinality(ValuesShown) <= Cardinality(Decodable))


---------------------------------------------------------------------------
(* One gate for a field in every presentation mode                         *)

(* The names the modes give to the three fields more than one mode shows,  *)
(* and the length print_single() wants exceeded before it prints them      *)
(* (len > 59 for the zone group and the attached device name, len > 109    *)
(* for the device slot number); -1 for any other field.                    *)
GateOfFullReport(name) ==
    CASE name \in {"zone group", "zg", "ZG"} -> 59
      [] name \in {"attached device name", "att_dev_name"} -> 59
      [] name \in {"device slot number", "dev_slot_num", "dsn"} -> 109
      [] OTHER -> -1

(* C23: a field shown by more than one mode is gated by the same length    *)
(* condition in each: no DISCOVER report, full, brief, attribute list or   *)
(* summary line, shows the zone group, the attached device name or the     *)
(* device slot number for a resolved length at which the full report       *)
(* leaves it out.                                                          *)
C23_SameGateInEveryMode ==
    \A i \in DOMAIN out :
        (util = "discover" /\ out[i].kind \in {"full", "list", "line"}) =>
            \A j \in DOMAIN out[i].fields :
                out[i].n > GateOfFullReport(out[i].fields[j].name)


---------------------------------------------------------------------------
(* A function code without a default length                                *)

(* Byte 3 and the function result are 0 and the table of default lengths   *)
(* has no entry for the function code the response carries.                *)
NoTableEntry(resp) ==
    /\ resp.b3 = 0
    /\ resp.b2 = 0
    /\ smp_get_func_def_resp_len(resp.b1) < 0

(* C24: when byte 3 and the function result are 0 and the table has no     *)
(* entry for the echoed function code, the step that resolves the length   *)
(* takes 0 dwords (4 bytes), writes nothing, sets no status and goes on to *)
(* the tests of the frame.                                                 *)
C24_NoEntryGoesOn ==
    [][(/\ pc \in {"resolve", "gnp_resolve", "dd_resolve"}
        /\ ~ResponseTooShort(rr.act_response_len)
        /\ NoTableEntry(rr.response)) =>
           /\ deduced' = 4
           /\ len' = 4
           /\ pc' \in {"validate", "gnp_validate", "dd_validate"}
           /\ ret' = ret
           /\ rv' = rv
           /\ out' = out
           /\ exit' = exit]_vars

(* The length resolved to 4 bytes for a response with an unlisted function *)
(* code, the tests of the frame being next.                                *)
C24_Witness ==
    /\ pc \in {"validate", "gnp_validate", "dd_validate"}
    /\ NoTableEntry(rr.response)
    /\ rr.response.b1 \in UnlistedCodes
    /\ deduced = 4
    /\ len = 4


---------------------------------------------------------------------------
(* The reads of the descriptor loop                                        *)

(* C25: every byte the descriptor loop of smp_rep_broadcast reads (bytes   *)
(* 0..5 of each descriptor it reports) lies below the resolved length of   *)
(* the response, and so inside the 1028 bytes of smp_resp[].               *)
C25_DescriptorReadsInside ==
    \A i \in DOMAIN out :
        (util = "rep_broadcast" /\ out[i].kind = "fields") =>
            \A j \in DOMAIN out[i].fields :
                (out[i].fields[j].name = "Descriptor") =>
                    /\ out[i].fields[j].hi < out[i].n
                    /\ out[i].fields[j].hi < SMP_FN_REPORT_BROADCAST_RESP_LEN


---------------------------------------------------------------------------
(* The resolved length and the response buffer                             *)

(* C26: the resolved length handed to the hex dump, the raw dump and the   *)
(* field decoder of a utility is at most the size of the response buffer   *)
(* the utility gave to the transport.                                      *)
C26_LengthWithinBuffer ==
    (pc \in {"validate", "dd_validate"}) => (len <= Capacity(util))


---------------------------------------------------------------------------
(* The summary line of a phy and the phys before it                        *)

(* do_multiple() prints a summary line in this step.                       *)
LinePrinted ==
    /\ pc = "dd_return"
    /\ Len(out') = Len(out) + 1
    /\ out'[Len(out')].kind = "line"

(* C27: the summary line printed for a phy is the line its own response    *)
(* gives with the options and the table to table flag, whatever the phys   *)
(* before it answered: it is the line the phy gets when it is the first of *)
(* the enumeration (dsn[] still empty), device slot number suffix          *)
(* included.                                                               *)
C27_LineOfOwnResponse ==
    [][LinePrinted =>
          out'[Len(out')].fields =
              SummaryLine(op, rr.response, rv, has_t2t, "")]_vars

(***************************************************************************)
(* C28: --my on a vacant phy.  When smp_discover runs with --my and the   *)
(* DISCOVER response carries the function result PHY_VACANT together with *)
(* a non-zero SAS address in bytes 16..23, the program prints that        *)
(* address and, the target closing cleanly, exits with status 0.          *)
(***************************************************************************)
MyOnVacant ==
    /\ util = "discover"
    /\ op.multiple = 0
    /\ op.do_my
    /\ ~Dumping(op)
    /\ pc \in {"close", "done"}
    /\ hist = <<Met("fres", SMP_FRES_PHY_VACANT)>>
    /\ rr.response.pl.sa > 0

C28_MyVacantAddress ==
    MyOnVacant =>
        /\ out = <<Output("my", op.phy_id, rr.response.pl.sa)>>
        /\ (pc = "done" /\ closed = <<0>>) => (exit = 0)

(***************************************************************************)
(* C29: exactly one close.  In every utility, on every path that follows  *)
(* a successful open and on which main() returns, smp_initiator_close()   *)
(* is called exactly once before the program ends, and no request is sent *)
(* once the target is closed.  A run the system ends in the middle of an  *)
(* out-of-bounds access (exit = Killed) returns from no function and is   *)
(* not a path of main().                                                  *)
(***************************************************************************)
C29_ClosedExactlyOnce ==
    [][/\ (pc # "open" /\ pc' = "done" /\ exit' # Killed)
            => (Len(closed') = 1)
       /\ Len(closed') <= 1
       /\ (closed # <<>>) => (sent' = sent)]_vars

C29_Witness ==
    /\ pc = "done"
    /\ util = "discover"
    /\ op.multiple # 0
    /\ Len(Discovers) >= 2
    /\ hist[Len(hist)] = Met("fres", SMP_FRES_NO_PHY)
    /\ Len(closed) = 1

(***************************************************************************)
(* C30: phy identifiers of an enumeration.  For every accepted --phy and  *)
(* --num and every outcome of the pre-query, the i-th DISCOVER request of *)
(* a multi-phy enumeration carries in byte 9 the loop index of its        *)
(* iteration, op.phy_id + i - 1, that index is within 0..MAX_PHY_ID, and  *)
(* no phy identifier is placed in two requests.                           *)
(***************************************************************************)
C30_PhyIdIsLoopIndex ==
    (util = "discover" /\ op.multiple # 0) =>
        \A i \in DOMAIN Discovers :
            /\ Discovers[i].req[9] = op.phy_id + i - 1
            /\ op.phy_id + i - 1 \in 0..MAX_PHY_ID
            /\ \A j \in DOMAIN Discovers :
                  (j # i) => (Discovers[j].req[9] # Discovers[i].req[9])

=============================================================================
